---- MODULE Spec2Model ----
(***************************************************************************)
(* Model of the price-wise data-acquisition runtime.                       *)
(* scrape.py:                                                              *)
(*   - the daily progress tracker and main's collection loop,              *)
(*   - fetch_all_pricing's batching of records into the live dataset,      *)
(*   - extract_rooms_json_from_html's bracket scanner,                     *)
(*   - extract_pricing_data's room counts and availability.                *)
(* analyze.py:                                                             *)
(*   - room samples and preferred occupancy of calculate_occupancy_metrics *)
(*     and analyze_room_inventory,                                         *)
(*   - compare_to_reference and main's analysis output.                    *)
(***************************************************************************)
EXTENDS Integers, Sequences, FiniteSets, TLC

(***************************************************************************)
(* Bounds of the model.                                                    *)
(***************************************************************************)
MaxDay == 2            \* calendar days 1..MaxDay; day 0 is "before the model"
MaxRuns == 2           \* runs of main started in one behaviour
MaxDates == 2          \* dates per property in the many-property configuration
MaxBatchDates == 11    \* dates per property in the one-property configuration
MaxFaults == 1         \* records of one collection that are not "available"
MaxLen == 14           \* characters of html_content
MaxRows == 3           \* records of one property in the analysed dataset
MaxRooms == 2          \* room types a record can report
MaxChecks == 2         \* records in the dataset the metrics are computed from

(***************************************************************************)
(* Program constants.                                                      *)
(***************************************************************************)
SAVE_BATCH_SIZE == 10
MAX_ARCHIVE_FILES == 5

Null == "null"         \* Python None / JSON null
Absent == "absent"     \* key not present in a dict
NoDate == -1           \* "date": None

\* a path that does not exist, and a file with its content
NoFile == [exists |-> FALSE, rows |-> << >>, day |-> NoDate]
CsvFile(rows) == [exists |-> TRUE, rows |-> rows, day |-> NoDate]
DatedFile(d) == [exists |-> TRUE, rows |-> << >>, day |-> d]

VARIABLES
    today,              \* datetime.now() as a day number
    all_hotels,         \* config.HOTELS_FILE content (slugs, in order)
    num_dates,          \* number of date checks per property (config)
    site,               \* what a page load can do in this environment
    progress_file,      \* config.DAILY_PROGRESS_FILE
    pricing_csv,        \* config.PRICING_CSV: NoFile or CsvFile(rows)
    analysis_json,      \* config.ANALYSIS_JSON: NoFile or DatedFile(generated_at)
    scrape_log,         \* scrape_log.json: NoFile or DatedFile(date of its last entry)
    csv_archives,       \* ARCHIVE_DIR/pricing_data_<key>.csv
    json_archives,      \* ARCHIVE_DIR/pricing_analysis_<key>.json
    pc,                 \* position of main
    hotels_to_scrape,   \* main's locals
    already_completed,
    is_new_day,
    completed_slugs,
    idx,                \* index of the current property in hotels_to_scrape
    all_pricing,        \* fetch_all_pricing's local list
    batches,            \* the batches passed to save_batch by the current call
    trace,              \* side effects of the current run, in order of first occurrence
    exit,               \* how the last run of main ended
    runs,               \* runs of main started so far
    x_phase,            \* extract_rooms_json_from_html: "search" | "key" | "scan" | "done"
    x_pos,              \* characters of html_content read so far
    x_start,            \* start_pos (1-based), 0 while the pattern has not matched
    x_scan,             \* bracket_count, in_string, escape_next
    x_json,             \* json.loads over html_content[start_pos:], in step with the scan
    x_end,              \* position where bracket_count returned to zero, 0 if none
    x_close,            \* the character read at x_end
    x_result,           \* "none" | "empty" | "parsed" | "raised"
    x_seen,             \* features of the text scanned so far
    x_literal,          \* the literal that follows the first occurrence of the key
    a_phase,            \* analyze.main on one property: "off" | "load" | "done"
    df,                 \* the property's records, sorted by check_in_date
    occupancy_samples,  \* calculate_occupancy_metrics: values appended per sample
    occupancy_metrics,  \* calculate_occupancy_metrics: the property's metrics row
    inventory_samples,  \* analyze_room_inventory: room_samples
    c_phase,            \* analyze.main from the metrics on: "off" | "metrics" | "rows" |
                        \*   "compared" | "raised" | "insufficient" | "written"
    pricing_df,         \* calculate_pricing_metrics(df)
    occupancy_df,       \* calculate_occupancy_metrics(df)
    c_idx,              \* rows of pricing_df that compare_to_reference has iterated
    comparisons,        \* compare_to_reference: comparisons, then its result
    json_summary,       \* the analysis object written by generate_json_summary
    p_phase,            \* extract_pricing_data: "off" | "fetch" | "loaded" | "extracted"
    page,               \* what the page holds
    pricing_record,     \* the record extract_pricing_data returns
    m_phase,            \* analyze.main on a dataset: "off" | "load" | "metrics" |
                        \*   "compared" | "raised" | "insufficient"
    dataset,            \* load_pricing_data(): the records of all properties
    metrics,            \* the pricing and the occupancy metrics tables
    room_deltas         \* compare_to_reference: the room-level part of its records

session_vars == << today, all_hotels, num_dates, site, progress_file, pricing_csv,
                   analysis_json, scrape_log, csv_archives, json_archives, pc,
                   hotels_to_scrape, already_completed, is_new_day,
                   completed_slugs, idx, all_pricing, batches, trace, exit, runs >>

x_vars == << x_phase, x_pos, x_start, x_scan, x_json, x_end, x_close, x_result, x_seen,
            x_literal >>

a_vars == << a_phase, df, occupancy_samples, occupancy_metrics, inventory_samples >>

c_vars == << c_phase, pricing_df, occupancy_df, c_idx, comparisons, json_summary >>

p_vars == << p_phase, page, pricing_record >>

m_vars == << m_phase, dataset, metrics, room_deltas >>

\* the variables of the analysis and of the page extraction
y_vars == << a_vars, c_vars, p_vars, m_vars >>

----------------------------------------------------------------------------
(***************************************************************************)
(* Helpers on sequences.                                                   *)
(***************************************************************************)
Range(s) == { s[i] : i \in 1..Len(s) }

Contains(s, x) == \E i \in 1..Len(s) : s[i] = x

\* s[-n:] for 1 <= n <= Len(s)
LastN(s, n) == SubSeq(s, Len(s) - n + 1, Len(s))

RECURSIVE Flatten(_)
Flatten(ss) == IF ss = << >> THEN << >> ELSE Head(ss) \o Flatten(Tail(ss))

AddOnce(s, e) == IF Contains(s, e) THEN s ELSE Append(s, e)

Max(S) == CHOOSE x \in S : \A y \in S : y <= x

Min2(a, b) == IF a <= b THEN a ELSE b

Max2(a, b) == IF a >= b THEN a ELSE b

----------------------------------------------------------------------------
(***************************************************************************)
(* The progress document.                                                  *)
(*   file state: "missing" | "empty" | "invalid" | "json"                  *)
(*   json value: a list, or an object with some of the keys date and       *)
(*   completed_properties.                                                 *)
(***************************************************************************)
ProgressObject(d, c) ==
    [state |-> "json", type |-> "object", keys |-> {"date", "completed_properties"},
     date |-> d, completed_properties |-> c]

MissingFile == [state |-> "missing", type |-> "none", keys |-> {},
                date |-> NoDate, completed_properties |-> << >>]
EmptyFile == [MissingFile EXCEPT !.state = "empty"]
InvalidJsonFile == [MissingFile EXCEPT !.state = "invalid"]
JsonListFile == [MissingFile EXCEPT !.state = "json", !.type = "list"]
JsonNoDateFile == [MissingFile EXCEPT !.state = "json", !.type = "object",
                                      !.keys = {"completed_properties"}]

MalformedFiles == { MissingFile, EmptyFile, InvalidJsonFile, JsonListFile, JsonNoDateFile }

\* load_daily_progress: the parsed JSON value, or the default object
load_daily_progress(file) ==
    IF file.state = "json"
    THEN [type |-> file.type, keys |-> file.keys, date |-> file.date,
          completed_properties |-> file.completed_properties]
    ELSE [type |-> "object", keys |-> {"date", "completed_properties"},
          date |-> NoDate, completed_properties |-> << >>]

\* save_daily_progress: the document written
save_daily_progress(completed, td) == ProgressObject(td, completed)

Raised == [raised |-> TRUE, remaining |-> << >>, completed |-> << >>, is_new_day |-> FALSE]

Returned(rem, comp, nd) ==
    [raised |-> FALSE, remaining |-> rem, completed |-> comp, is_new_day |-> nd]

\* as get_properties_to_scrape, resuming with the whole list
get_properties_to_scrape_unfiltered(file, td, hotels) ==
    LET progress == load_daily_progress(file)
        completed == IF "completed_properties" \in progress.keys
                     THEN progress.completed_properties ELSE << >>
    IN  IF progress.type # "object" \/ "date" \notin progress.keys
        THEN Raised
        ELSE IF progress.date # td
        THEN Returned(hotels, << >>, TRUE)
        ELSE IF Len(completed) >= Len(hotels)
        THEN Returned(<< >>, completed, FALSE)
        ELSE Returned(hotels, completed, FALSE)

\* as get_properties_to_scrape, keeping the stored completed list on a new day
get_properties_to_scrape_keeps_completed(file, td, hotels) ==
    LET progress == load_daily_progress(file)
        completed == IF "completed_properties" \in progress.keys
                     THEN progress.completed_properties ELSE << >>
    IN  IF progress.type # "object" \/ "date" \notin progress.keys
        THEN Raised
        ELSE IF progress.date # td
        THEN Returned(hotels, completed, TRUE)
        ELSE IF Len(completed) >= Len(hotels)
        THEN Returned(<< >>, completed, FALSE)
        ELSE Returned(SelectSeq(hotels, LAMBDA h : ~Contains(completed, h)),
                      completed, FALSE)

\* as get_properties_to_scrape, starting over once everything is completed
get_properties_to_scrape_restarts(file, td, hotels) ==
    LET progress == load_daily_progress(file)
        completed == IF "completed_properties" \in progress.keys
                     THEN progress.completed_properties ELSE << >>
    IN  IF progress.type # "object" \/ "date" \notin progress.keys
        THEN Raised
        ELSE IF progress.date # td \/ Len(completed) >= Len(hotels)
        THEN Returned(hotels, << >>, TRUE)
        ELSE Returned(SelectSeq(hotels, LAMBDA h : ~Contains(completed, h)),
                      completed, FALSE)

\* get_properties_to_scrape: (remaining, completed, is_new_day) or an exception
get_properties_to_scrape(file, td, hotels) ==
    LET progress == load_daily_progress(file)
        completed == IF "completed_properties" \in progress.keys
                     THEN progress.completed_properties ELSE << >>
    IN  IF progress.type # "object" \/ "date" \notin progress.keys
        THEN Raised                                   \* progress["date"]
        ELSE IF progress.date # td
        THEN Returned(hotels, << >>, TRUE)
        ELSE IF Len(completed) >= Len(hotels)
        THEN Returned(<< >>, completed, FALSE)
        ELSE Returned(SelectSeq(hotels, LAMBDA h : ~Contains(completed, h)),
                      completed, FALSE)

----------------------------------------------------------------------------
(***************************************************************************)
(* Archival.                                                               *)
(***************************************************************************)
Keys(archives) == { a.key : a \in archives }

\* as Newest, keeping the n archives with the smallest keys
Newest_KeepsOldest(archives, n) ==
    { a \in archives : Cardinality({ b \in archives : b.key < a.key }) < n }

\* the n archives with the largest keys (sorted(..., reverse=True)[:n])
Newest(archives, n) ==
    { a \in archives : Cardinality({ b \in archives : b.key > a.key }) < n }

\* archive_existing_data: the archive directory afterwards
archive_existing_data(csv, analysis, log, carch, jarch, td) ==
    IF ~csv.exists
    THEN [csv |-> carch, json |-> jarch]
    ELSE LET date_str == IF log.exists THEN log.day ELSE td - 1
             c1 == IF date_str \notin Keys(carch)
                   THEN carch \cup {[key |-> date_str, rows |-> csv.rows]} ELSE carch
             j1 == IF analysis.exists /\ date_str \notin Keys(jarch)
                   THEN jarch \cup {[key |-> date_str, content |-> analysis.day]} ELSE jarch
         IN  [csv |-> Newest(c1, MAX_ARCHIVE_FILES), json |-> Newest(j1, MAX_ARCHIVE_FILES)]

----------------------------------------------------------------------------
(***************************************************************************)
(* Records.                                                                *)
(***************************************************************************)
\* what extract_pricing_data returns for a page that loaded
ExtractedRecord(slug, av, td) ==
    [hotel_slug |-> slug, day_offset |-> NoDate, scrape_timestamp |-> td, availability |-> av,
     total_price |-> IF av = "available" THEN "price" ELSE Null,
     price_per_night |-> IF av = "available" THEN "price" ELSE Null,
     has_discount |-> "bool",
     total_room_types |-> "count",
     available_room_types |-> "count"]

\* as ErrorRecord, with room counts filled in
ErrorRecord_WithRooms(slug, td) ==
    [hotel_slug |-> slug, day_offset |-> NoDate, scrape_timestamp |-> td, availability |-> "error",
     total_price |-> Null,
     price_per_night |-> Null,
     has_discount |-> Null,
     total_room_types |-> "count",
     available_room_types |-> "count"]

\* the record built by fetch_pricing_for_date's except branch
ErrorRecord(slug, td) ==
    [hotel_slug |-> slug, day_offset |-> NoDate, scrape_timestamp |-> td, availability |-> "error",
     total_price |-> Null,
     price_per_night |-> Null,
     has_discount |-> Null,
     total_room_types |-> Absent,
     available_room_types |-> Absent]

\* fetch_pricing_for_date: outcome is what the page load did
fetch_pricing_for_date(slug, outcome, td) ==
    IF outcome = "error" THEN ErrorRecord(slug, td) ELSE ExtractedRecord(slug, outcome, td)

Outcomes == {"available", "sold_out", "error"}

Faults(records) == Cardinality({ i \in 1..Len(records) : records[i].availability # "available" })

\* as FinalBatch, taking a whole batch from the end: all_pricing[-SAVE_BATCH_SIZE:]
FinalBatch_WholeBatch(ap) ==
    LastN(ap, IF Len(ap) < SAVE_BATCH_SIZE THEN Len(ap) ELSE SAVE_BATCH_SIZE)

\* all_pricing[-remaining:] with remaining = len(all_pricing) % SAVE_BATCH_SIZE
FinalBatch(ap) == LastN(ap, Len(ap) % SAVE_BATCH_SIZE)

\* as BatchIsFull, saving at every second multiple of SAVE_BATCH_SIZE
BatchIsFull_EverySecond(ap) == Len(ap) % (2 * SAVE_BATCH_SIZE) = 0

\* len(all_pricing) % SAVE_BATCH_SIZE == 0, tested after each append
BatchIsFull(ap) == Len(ap) % SAVE_BATCH_SIZE = 0

\* as Marked, leaving out a property that gave no data
Marked_SkipsNoData(cs, slug, pricing_data) ==
    IF pricing_data = << >> THEN cs ELSE Append(cs, slug)

\* completed_slugs.append(slug), after records or after "no data" alike
Marked(cs, slug, pricing_data) == Append(cs, slug)

\* save_batch: rows appended to the live dataset
save_batch(csv, batch) == CsvFile(csv.rows \o batch)

----------------------------------------------------------------------------
(***************************************************************************)
(* extract_rooms_json_from_html.  html_content is read one character at a  *)
(* time; "K" stands for the key token b_rooms_available_and_soldout: where *)
(* the pattern is searched (inside the scan its letters are read as "x"),  *)
(* and "x" for any other character.                                        *)
(***************************************************************************)
Chars == {"K", " ", "[", "]", "{", "}", "\"", "\\", ",", ":", "1", "x"}

ScanStart == [bracket_count |-> 0, in_string |-> FALSE, escape_next |-> FALSE, returned |-> FALSE]

\* as ScanStep, counting brackets inside strings too
ScanStep_NoStrings(sc, char) ==
    IF sc.escape_next
    THEN [sc EXCEPT !.escape_next = FALSE]
    ELSE IF char = "\\"
    THEN [sc EXCEPT !.escape_next = TRUE]
    ELSE LET ins == IF char = "\"" THEN ~sc.in_string ELSE sc.in_string
             cnt == IF char \in {"[", "{"} THEN sc.bracket_count + 1
                    ELSE IF char \in {"]", "}"} THEN sc.bracket_count - 1
                    ELSE sc.bracket_count
         IN  [sc EXCEPT !.in_string = ins, !.bracket_count = cnt,
                        !.returned = char \in {"]", "}"} /\ cnt = 0]

\* the body of the for loop over html_content[start_pos:]
ScanStep(sc, char) ==
    IF sc.escape_next
    THEN [sc EXCEPT !.escape_next = FALSE]
    ELSE IF char = "\\"
    THEN [sc EXCEPT !.escape_next = TRUE]
    ELSE LET ins == IF char = "\"" THEN ~sc.in_string ELSE sc.in_string
             cnt == IF ins THEN sc.bracket_count
                    ELSE IF char \in {"[", "{"} THEN sc.bracket_count + 1
                    ELSE IF char \in {"]", "}"} THEN sc.bracket_count - 1
                    ELSE sc.bracket_count
         IN  [sc EXCEPT !.in_string = ins, !.bracket_count = cnt,
                        !.returned = ~ins /\ char \in {"]", "}"} /\ cnt = 0]

(***************************************************************************)
(* json.loads, as a recognizer of JSON text read left to right: mode is    *)
(* what the grammar expects next, stack the open containers ("A" array,    *)
(* "O" object).  Numbers are runs of the digit "1".                        *)
(***************************************************************************)
JsonStart == [mode |-> "value", stack |-> << >>]

JsonFail == [mode |-> "fail", stack |-> << >>]

JsonClose(js) ==
    LET st == SubSeq(js.stack, 1, Len(js.stack) - 1)
    IN  [mode |-> IF st = << >> THEN "done" ELSE "after", stack |-> st]

JsonTop(js) == IF js.stack = << >> THEN "none" ELSE js.stack[Len(js.stack)]

\* a value starts here
JsonValue(js, char) ==
    IF char = "[" THEN [mode |-> "first", stack |-> Append(js.stack, "A")]
    ELSE IF char = "{" THEN [mode |-> "first_key", stack |-> Append(js.stack, "O")]
    ELSE IF char = "\"" THEN [js EXCEPT !.mode = "str"]
    ELSE IF char = "1" THEN [js EXCEPT !.mode = "num"]
    ELSE JsonFail

\* after a value inside a container: a separator or the closing bracket
JsonAfter(js, char) ==
    IF char = "," THEN [js EXCEPT !.mode = IF JsonTop(js) = "A" THEN "value" ELSE "key"]
    ELSE IF char = "]" /\ JsonTop(js) = "A" THEN JsonClose(js)
    ELSE IF char = "}" /\ JsonTop(js) = "O" THEN JsonClose(js)
    ELSE JsonFail

JsonStep(js, char) ==
    CASE js.mode = "fail" -> JsonFail
      [] js.mode \in {"str", "kstr"} ->
            IF char = "\"" THEN [js EXCEPT !.mode = IF js.mode = "str" THEN "after" ELSE "colon"]
            ELSE IF char = "\\" THEN [js EXCEPT !.mode = IF js.mode = "str" THEN "str_esc" ELSE "kstr_esc"]
            ELSE js
      [] js.mode \in {"str_esc", "kstr_esc"} ->
            IF char \in {"\"", "\\"}
            THEN [js EXCEPT !.mode = IF js.mode = "str_esc" THEN "str" ELSE "kstr"]
            ELSE JsonFail
      [] js.mode = "num" ->
            IF char = "1" THEN js
            ELSE IF js.stack = << >> THEN JsonFail
            ELSE IF char = " " THEN [js EXCEPT !.mode = "after"]
            ELSE JsonAfter(js, char)
      [] char = " " -> js
      [] js.mode = "value" -> JsonValue(js, char)
      [] js.mode = "first" -> IF char = "]" THEN JsonClose(js) ELSE JsonValue(js, char)
      [] js.mode = "first_key" ->
            IF char = "}" THEN JsonClose(js)
            ELSE IF char = "\"" THEN [js EXCEPT !.mode = "kstr"] ELSE JsonFail
      [] js.mode = "key" -> IF char = "\"" THEN [js EXCEPT !.mode = "kstr"] ELSE JsonFail
      [] js.mode = "colon" -> IF char = ":" THEN [js EXCEPT !.mode = "value"] ELSE JsonFail
      [] js.mode = "after" -> JsonAfter(js, char)
      [] OTHER -> JsonFail                     \* "done": extra data

\* as LoadsOrEmpty, without the except branch
LoadsOrEmpty_Uncaught(js) == IF js.mode = "done" THEN "parsed" ELSE "raised"

\* try: return json.loads(json_str)  except json.JSONDecodeError: return []
LoadsOrEmpty(js) == IF js.mode = "done" THEN "parsed" ELSE "empty"

\* what the text scanned so far contains
Features(sc, char) ==
    (IF ~sc.in_string /\ ~sc.escape_next /\ sc.bracket_count >= 1 /\ char = "["
     THEN {"nested_array"} ELSE {})
    \cup (IF sc.in_string /\ sc.escape_next /\ char = "\""
          THEN {"escaped_quote"} ELSE {})
    \cup (IF sc.in_string /\ ~sc.escape_next /\ char = "]"
          THEN {"bracket_in_string"} ELSE {})

\* html_content seen from outside: what follows the first occurrence of the
\* key and optional whitespace.  state is "before" (no key yet), "key" (in
\* the whitespace), "in" (a literal opened by "[" or "{" at position at, js
\* being json.loads over it) or "other" (something else follows the key).
NoLiteral == [state |-> "before", open |-> "", at |-> 0, js |-> JsonStart]

LiteralStep(lit, char, pos) ==
    CASE lit.state = "before" -> IF char = "K" THEN [lit EXCEPT !.state = "key"] ELSE lit
      [] lit.state = "key" ->
            IF char = " " THEN lit
            ELSE IF char \in {"[", "{"}
            THEN [state |-> "in", open |-> char, at |-> pos, js |-> JsonStep(JsonStart, char)]
            ELSE [lit EXCEPT !.state = "other"]
      [] lit.state = "in" /\ lit.js.mode \notin {"done", "fail"} ->
            [lit EXCEPT !.js = JsonStep(lit.js, IF char = "K" THEN "x" ELSE char)]
      [] OTHER -> lit

\* re.search(r'b_rooms_available_and_soldout:\s*(\[)', html_content), then
\* the scan from start_pos, on the next character of html_content
ReadChar ==
    /\ x_phase \in {"search", "key", "scan"}
    /\ x_pos < MaxLen
    /\ x_pos' = x_pos + 1
    /\ \E char \in Chars :
         /\ x_literal' = LiteralStep(x_literal, char, x_pos + 1)
         /\ \/ /\ x_phase = "search"
               /\ x_phase' = IF char = "K" THEN "key" ELSE "search"
               /\ UNCHANGED << x_start, x_scan, x_json, x_end, x_close, x_result, x_seen >>
            \/ /\ x_phase = "key"
               /\ char # "["
               /\ x_phase' = IF char = " " THEN "key" ELSE IF char = "K" THEN "key" ELSE "search"
               /\ UNCHANGED << x_start, x_scan, x_json, x_end, x_close, x_result, x_seen >>
            \/ /\ \/ x_phase = "key" /\ char = "["
                  \/ x_phase = "scan" /\ char # "K"
               /\ LET sc == ScanStep(x_scan, char)
                      js == JsonStep(x_json, char)
                  IN  /\ x_scan' = sc
                      /\ x_json' = js
                      /\ x_start' = IF x_phase = "key" THEN x_pos + 1 ELSE x_start
                      /\ x_seen' = x_seen \cup Features(x_scan, char)
                      /\ IF sc.returned
                         THEN /\ x_phase' = "done"
                              /\ x_end' = x_pos + 1
                              /\ x_close' = char
                              /\ x_result' = LoadsOrEmpty(js)
                         ELSE /\ x_phase' = "scan"
                              /\ UNCHANGED << x_end, x_close, x_result >>
    /\ UNCHANGED << session_vars, y_vars >>

\* html_content ends: no match (return []), or the loop ends (return [])
EndOfText ==
    /\ x_phase \in {"search", "key", "scan"}
    /\ x_phase' = "done"
    /\ x_result' = "empty"
    /\ UNCHANGED << x_pos, x_start, x_scan, x_json, x_end, x_close, x_seen, x_literal >>
    /\ UNCHANGED << session_vars, y_vars >>

----------------------------------------------------------------------------
(***************************************************************************)
(* main, one action per step between two points where a run can stop.      *)
(***************************************************************************)
NoRunLocals ==
    /\ hotels_to_scrape' = << >>
    /\ already_completed' = << >>
    /\ is_new_day' = FALSE
    /\ completed_slugs' = << >>
    /\ idx' = 0
    /\ all_pricing' = << >>
    /\ batches' = << >>
    /\ trace' = << >>

Slug == hotels_to_scrape[idx]

\* main up to the early return: load the configuration, ask the tracker
StartRun ==
    /\ pc = "idle"
    /\ runs < MaxRuns
    /\ runs' = runs + 1
    /\ LET r == get_properties_to_scrape(progress_file, today, all_hotels)
       IN  IF r.raised
           THEN /\ pc' = "idle" /\ exit' = "raised" /\ NoRunLocals
           ELSE IF r.remaining = << >>
           THEN /\ pc' = "idle" /\ exit' = "done" /\ NoRunLocals
           ELSE /\ pc' = "setup"
                /\ exit' = "running"
                /\ hotels_to_scrape' = r.remaining
                /\ already_completed' = r.completed
                /\ is_new_day' = r.is_new_day
                /\ completed_slugs' = r.completed
                /\ idx' = 1
                /\ all_pricing' = << >>
                /\ batches' = << >>
                /\ trace' = << >>
    /\ UNCHANGED << today, all_hotels, num_dates, site, progress_file, pricing_csv,
                    analysis_json, scrape_log, csv_archives, json_archives >>
    /\ UNCHANGED << x_vars, y_vars >>

\* if is_new_day: archive_existing_data()
Archive ==
    /\ pc = "setup"
    /\ is_new_day
    /\ LET a == archive_existing_data(pricing_csv, analysis_json, scrape_log,
                                      csv_archives, json_archives, today)
       IN  /\ csv_archives' = a.csv
           /\ json_archives' = a.json
    /\ trace' = AddOnce(trace, "archive")
    /\ pc' = "open"
    /\ UNCHANGED << today, all_hotels, num_dates, site, progress_file, pricing_csv,
                    analysis_json, scrape_log, hotels_to_scrape, already_completed,
                    is_new_day, completed_slugs, idx, all_pricing, batches, exit, runs >>
    /\ UNCHANGED << x_vars, y_vars >>

\* as csv_mode, always recreating the live dataset
csv_mode_AlwaysWrite == "w"

csv_mode == IF is_new_day THEN "w" ELSE IF pricing_csv.exists THEN "a" ELSE "w"

\* choose csv_mode; in mode "w" recreate the live dataset with its header only
OpenCsv ==
    /\ \/ pc = "open"
       \/ pc = "setup" /\ ~is_new_day
    /\ IF csv_mode = "w"
       THEN /\ pricing_csv' = CsvFile(<< >>)
            /\ trace' = AddOnce(trace, "truncate")
       ELSE UNCHANGED << pricing_csv, trace >>
    /\ pc' = "collect"
    /\ UNCHANGED << today, all_hotels, num_dates, site, progress_file, analysis_json,
                    scrape_log, csv_archives, json_archives, hotels_to_scrape,
                    already_completed, is_new_day, completed_slugs, idx, all_pricing,
                    batches, exit, runs >>
    /\ UNCHANGED << x_vars, y_vars >>

\* one iteration of fetch_all_pricing's loop: fetch, append, save a full batch
FetchDate ==
    /\ pc = "collect"
    /\ Len(all_pricing) < num_dates
    /\ \E outcome \in site :
         /\ outcome = "available" \/ Faults(all_pricing) < MaxFaults
         /\ LET pricing == [fetch_pricing_for_date(Slug, outcome, today)
                               EXCEPT !.day_offset = Len(all_pricing)]
                ap == Append(all_pricing, pricing)
            IN  /\ all_pricing' = ap
                /\ IF BatchIsFull(ap)
                   THEN /\ pricing_csv' = save_batch(pricing_csv, LastN(ap, SAVE_BATCH_SIZE))
                        /\ batches' = Append(batches, LastN(ap, SAVE_BATCH_SIZE))
                        /\ trace' = AddOnce(trace, "append")
                   ELSE UNCHANGED << pricing_csv, batches, trace >>
    /\ UNCHANGED << today, all_hotels, num_dates, site, progress_file, analysis_json,
                    scrape_log, csv_archives, json_archives, pc, hotels_to_scrape,
                    already_completed, is_new_day, completed_slugs, idx, exit, runs >>
    /\ UNCHANGED << x_vars, y_vars >>

\* as RaiseInCollect, marking the property completed in the except branch
RaiseInCollect_Marks ==
    /\ pc = "collect"
    /\ Len(all_pricing) < num_dates
    /\ progress_file' = save_daily_progress(Append(completed_slugs, Slug), today)
    /\ pc' = "idle"
    /\ exit' = "aborted"
    /\ NoRunLocals
    /\ UNCHANGED << today, all_hotels, num_dates, site, pricing_csv,
                    analysis_json, scrape_log, csv_archives, json_archives, runs >>
    /\ UNCHANGED << x_vars, y_vars >>

\* an exception leaves fetch_all_pricing (browser launch, new context or new
\* page failed): main's except branch breaks out of the loop
RaiseInCollect ==
    /\ pc = "collect"
    /\ Len(all_pricing) < num_dates
    /\ pc' = "idle"
    /\ exit' = "aborted"
    /\ NoRunLocals
    /\ UNCHANGED << today, all_hotels, num_dates, site, progress_file, pricing_csv,
                    analysis_json, scrape_log, csv_archives, json_archives, runs >>
    /\ UNCHANGED << x_vars, y_vars >>

\* as ReturnPricing, returning without saving the records after the last full batch
ReturnPricing_NoFlush ==
    /\ pc = "collect"
    /\ Len(all_pricing) = num_dates
    /\ pc' = "returned"
    /\ UNCHANGED << today, all_hotels, num_dates, site, progress_file, pricing_csv,
                    analysis_json, scrape_log, csv_archives, json_archives,
                    hotels_to_scrape, already_completed, is_new_day, completed_slugs, idx,
                    all_pricing, batches, trace, exit, runs >>
    /\ UNCHANGED << x_vars, y_vars >>

\* the end of fetch_all_pricing: save the records after the last full batch
ReturnPricing ==
    /\ pc = "collect"
    /\ Len(all_pricing) = num_dates
    /\ IF Len(all_pricing) % SAVE_BATCH_SIZE # 0
       THEN /\ pricing_csv' = save_batch(pricing_csv, FinalBatch(all_pricing))
            /\ batches' = Append(batches, FinalBatch(all_pricing))
            /\ trace' = AddOnce(trace, "append")
       ELSE UNCHANGED << pricing_csv, batches, trace >>
    /\ pc' = "returned"
    /\ UNCHANGED << today, all_hotels, num_dates, site, progress_file, analysis_json,
                    scrape_log, csv_archives, json_archives, hotels_to_scrape,
                    already_completed, is_new_day, completed_slugs, idx, all_pricing,
                    exit, runs >>
    /\ UNCHANGED << x_vars, y_vars >>

\* back in main: mark the property completed, save the progress, go on
MarkCompleted ==
    /\ pc = "returned"
    /\ LET cs == Marked(completed_slugs, Slug, all_pricing)
       IN  /\ progress_file' = save_daily_progress(cs, today)
           /\ IF idx < Len(hotels_to_scrape)
              THEN /\ completed_slugs' = cs
                   /\ idx' = idx + 1
                   /\ pc' = "collect"
                   /\ all_pricing' = << >>
                   /\ batches' = << >>
                   /\ trace' = AddOnce(trace, "progress")
                   /\ UNCHANGED << hotels_to_scrape, already_completed, is_new_day, exit >>
              ELSE /\ pc' = "idle"
                   /\ exit' = "finished"
                   /\ NoRunLocals
    /\ UNCHANGED << today, all_hotels, num_dates, site, pricing_csv, analysis_json,
                    scrape_log, csv_archives, json_archives, runs >>
    /\ UNCHANGED << x_vars, y_vars >>

\* the process is stopped from outside (KeyboardInterrupt, kill, power loss)
Interrupt ==
    /\ pc # "idle"
    /\ pc' = "idle"
    /\ exit' = "killed"
    /\ NoRunLocals
    /\ UNCHANGED << today, all_hotels, num_dates, site, progress_file, pricing_csv,
                    analysis_json, scrape_log, csv_archives, json_archives, runs >>
    /\ UNCHANGED << x_vars, y_vars >>

\* config.HOTELS_FILE is edited between two runs: a property is replaced,
\* added or removed
HotelLists == { <<"A", "B">>, <<"A", "C">>, <<"A", "B", "C">>, <<"A">> }

EditHotels ==
    /\ pc = "idle"
    /\ all_hotels' \in HotelLists \ {all_hotels}
    /\ UNCHANGED << today, num_dates, site, progress_file, pricing_csv, analysis_json,
                    scrape_log, csv_archives, json_archives, pc, hotels_to_scrape,
                    already_completed, is_new_day, completed_slugs, idx, all_pricing,
                    batches, trace, exit, runs >>
    /\ UNCHANGED << x_vars, y_vars >>

\* midnight passes
Tick ==
    /\ today < MaxDay
    /\ today' = today + 1
    /\ UNCHANGED << all_hotels, num_dates, site, progress_file, pricing_csv, analysis_json,
                    scrape_log, csv_archives, json_archives, pc, hotels_to_scrape,
                    already_completed, is_new_day, completed_slugs, idx, all_pricing,
                    batches, trace, exit, runs >>
    /\ UNCHANGED << x_vars, y_vars >>

----------------------------------------------------------------------------
(***************************************************************************)
(* extract_pricing_data.  A page is what the function reads from it:       *)
(*   rooms_json    the parsed b_rooms_available_and_soldout list; a room is *)
(*                 "priced" (first block has a b_raw_price that float()     *)
(*                 accepts), "unparsable" (float() raises), "no_price"      *)
(*                 (empty b_raw_price) or "no_blocks",                      *)
(*   all_rooms     number of b_name entries of b_all_rooms,                 *)
(*   table         "none" | "rows" | "cells": no room table, a table with   *)
(*                 room rows, a table read by its price cells,              *)
(*   rows          per room row: "priced" | "unparsable" (price element     *)
(*                 whose text is no number) | "no_elem" | "no_cell",        *)
(*   cells         per price cell: "priced" | "unparsable" | "no_elem",     *)
(*   roomtypes     number of room type elements in the table,               *)
(*   sold_out      a property-level sold-out indicator is present.          *)
(***************************************************************************)
RoomKinds == {"priced", "unparsable", "no_price", "no_blocks"}

RowKinds == {"priced", "unparsable", "no_elem", "no_cell"}

CellKinds == {"priced", "unparsable", "no_elem"}

SeqsUpTo(S, n) == UNION { [1..k -> S] : k \in 0..n }

Count(s, kinds) == Cardinality({ i \in 1..Len(s) : s[i] \in kinds })

Page(rj, ar, so, tb, rw, ce, rt) ==
    [rooms_json |-> rj, all_rooms |-> ar, table |-> tb, rows |-> rw,
     cells |-> ce, roomtypes |-> rt, sold_out |-> so]

\* extract_room_details_from_json: counts of names, room types and prices
extract_room_details_from_json(rooms_data) ==
    [room_names |-> Len(rooms_data),
     room_prices |-> Count(rooms_data, {"priced"}),
     total_room_types |-> Len(rooms_data),
     available_room_types |-> Count(rooms_data, {"priced"})]

\* the fallback that counts by price cells when the table has no room rows
PriceCellCounts(pg) ==
    LET available_room_types == Count(pg.cells, {"priced", "unparsable"})
    IN  [total_room_types |-> pg.roomtypes,
         available_room_types |-> available_room_types,
         sold_out_room_types |-> Max2(0, pg.roomtypes - available_room_types),
         room_prices |-> Count(pg.cells, {"priced"})]

\* the loop over the room rows of the table
RoomRowCounts(pg) ==
    [total_room_types |-> Len(pg.rows),
     available_room_types |-> Count(pg.rows, {"priced", "unparsable"}),
     sold_out_room_types |-> Count(pg.rows, {"no_elem", "no_cell"}),
     room_prices |-> Count(pg.rows, {"priced"})]

\* the room counts, the number of parsed room prices and the availability of
\* the record extract_pricing_data returns
extract_pricing_data(pg) ==
    LET details == extract_room_details_from_json(pg.rooms_json)
        from_all == details.room_names = 0 /\ pg.all_rooms > 0
        room_names == IF from_all THEN pg.all_rooms ELSE details.room_names
        total == IF from_all THEN pg.all_rooms ELSE details.total_room_types
        dom == IF pg.table = "rows" THEN RoomRowCounts(pg) ELSE PriceCellCounts(pg)
    IN  IF room_names > 0
        THEN [path |-> IF from_all THEN "all_rooms" ELSE "json",
              availability |-> IF details.available_room_types > 0
                               THEN "available" ELSE "sold_out",
              total_room_types |-> total,
              available_room_types |-> details.available_room_types,
              sold_out_room_types |-> total - details.available_room_types,
              room_prices |-> details.room_prices]
        ELSE IF pg.table = "none"
        THEN [path |-> "dom",
              availability |-> IF pg.sold_out THEN "sold_out" ELSE "available",
              total_room_types |-> 0,
              available_room_types |-> 0,
              sold_out_room_types |-> 0,
              room_prices |-> 0]
        ELSE [path |-> IF pg.table = "rows" THEN "dom_rows" ELSE "dom_cells",
              availability |-> IF dom.available_room_types > 0
                               THEN "available" ELSE "sold_out",
              total_room_types |-> dom.total_room_types,
              available_room_types |-> dom.available_room_types,
              sold_out_room_types |-> dom.sold_out_room_types,
              room_prices |-> dom.room_prices]

NoPageRecord == [path |-> "none", availability |-> "none", total_room_types |-> 0,
                 available_room_types |-> 0, sold_out_room_types |-> 0, room_prices |-> 0]

NoPage == Page(<< >>, 0, FALSE, "none", << >>, << >>, 0)

NoPricingPage ==
    /\ p_phase = "off"
    /\ page = NoPage
    /\ pricing_record = NoPageRecord

\* fetch_pricing_for_date: html = await page.content()
PageContent ==
    /\ p_phase = "fetch"
    /\ p_phase' = "loaded"
    /\ \E rj \in SeqsUpTo(RoomKinds, MaxRooms), ar \in 0..MaxRooms, so \in BOOLEAN :
         \/ page' = Page(rj, ar, so, "none", << >>, << >>, 0)
         \/ \E rw \in SeqsUpTo(RowKinds, MaxRooms) \ { << >> } :
              page' = Page(rj, ar, so, "rows", rw, << >>, 0)
         \/ \E ce \in SeqsUpTo(CellKinds, MaxRooms), rt \in 0..MaxRooms :
              page' = Page(rj, ar, so, "cells", << >>, ce, rt)
    /\ UNCHANGED pricing_record
    /\ UNCHANGED << session_vars, x_vars, a_vars, c_vars, m_vars >>

\* fetch_pricing_for_date: pricing = extract_pricing_data(html, ...)
ExtractPricing ==
    /\ p_phase = "loaded"
    /\ p_phase' = "extracted"
    /\ pricing_record' = extract_pricing_data(page)
    /\ UNCHANGED page
    /\ UNCHANGED << session_vars, x_vars, a_vars, c_vars, m_vars >>

----------------------------------------------------------------------------
(***************************************************************************)
(* analyze.py.  Numbers are kept exact: a rate is a fraction num/den, and   *)
(* NaN stands for pandas' NaN and for None in a numeric column.            *)
(***************************************************************************)
NaN == -1

Frac(n, d) == [num |-> n, den |-> d]

FracEq(a, b) == a.num * b.den = b.num * a.den

FracPos(a) == a.num > 0

FracAdd(a, b) == Frac(a.num * b.den + b.num * a.den, a.den * b.den)

RECURSIVE FracSum(_)
FracSum(s) == IF s = << >> THEN Frac(0, 1) ELSE FracAdd(Head(s), FracSum(Tail(s)))

\* float(np.mean(values)) if values else 0.0
MeanOrZero(s) ==
    IF s = << >> THEN Frac(0, 1) ELSE Frac(FracSum(s).num, FracSum(s).den * Len(s))

\* the rows extract_pricing_data and fetch_pricing_for_date can write for one
\* property and date, as pd.read_csv returns them
DatasetRows ==
    { [total_room_types |-> NaN, available_room_types |-> NaN, availability |-> "error"] }
    \cup { [total_room_types |-> t, available_room_types |-> a, availability |-> v] :
             <<t, a, v>> \in { w \in (0..MaxRooms) \X (0..MaxRooms) \X {"available", "sold_out"} :
                                 \/ w[2] > 0 /\ w[3] = "available"
                                 \/ w[2] = 0 /\ w[3] = "sold_out"
                                 \/ w[1] = 0 /\ w[2] = 0 } }

\* current_total_rooms once row i is read: the last total_room_types > 0
current_total_rooms(d, i) ==
    LET seen == { j \in 1..i : d[j].total_room_types > 0 }
    IN  IF seen = {} THEN NaN ELSE d[Max(seen)].total_room_types

\* calculate_occupancy_metrics, first loop: the sample of row i (skip: continue)
OccupancyRowSample(d, i) ==
    LET row == d[i]
        total_rooms == IF row.total_room_types > 0 THEN row.total_room_types
                       ELSE current_total_rooms(d, i)
        available_rooms == IF row.available_room_types # NaN THEN row.available_room_types
                           ELSE IF row.availability = "sold_out" THEN 0
                           ELSE total_rooms
    IN  [skip |-> total_rooms = NaN /\ available_rooms = NaN,
         index |-> i,                                  \* row.Index, to tell the samples apart
         total_raw |-> row.total_room_types,
         total |-> total_rooms,
         available |-> available_rooms]

OccupancyRoomSamples(d) ==
    SelectSeq([i \in 1..Len(d) |-> OccupancyRowSample(d, i)], LAMBDA s : ~s.skip)

\* room_type_estimate = max(totals_observed), None when nothing was observed
OccupancyEstimate(d) ==
    LET totals_observed == { s.total_raw : s \in { t \in Range(OccupancyRoomSamples(d)) :
                                                     t.total_raw # NaN } }
    IN  IF totals_observed = {} THEN NaN ELSE Max(totals_observed)

\* calculate_occupancy_metrics, second loop: what is appended to
\* available_values, sold_values and occupancy_values for each sample kept
OccupancyValue(s, room_type_estimate) ==
    LET total_for_calc == IF room_type_estimate # NaN THEN room_type_estimate ELSE s.total
        available == Min2(Max2(s.available, 0), total_for_calc)
        sold == Max2(total_for_calc - available, 0)
    IN  [index |-> s.index, total |-> total_for_calc, available |-> available, sold |-> sold,
         occupancy |-> Frac(sold * 100, total_for_calc)]

OccupancyValues(d) ==
    LET est == OccupancyEstimate(d)
        kept == SelectSeq(OccupancyRoomSamples(d),
                          LAMBDA s : LET t == IF est # NaN THEN est ELSE s.total
                                     IN  t # NaN /\ t > 0 /\ s.available # NaN)
    IN  [i \in 1..Len(kept) |-> OccupancyValue(kept[i], est)]

\* as calculate_occupancy_metrics, with the source tag chosen by has_room_signal alone
calculate_occupancy_metrics_tag_by_signal(d) ==
    LET total_checks == Len(d)
        sold_out_checks == Cardinality({ i \in 1..Len(d) : d[i].availability = "sold_out" })
        room_type_estimate == OccupancyEstimate(d)
        values == OccupancyValues(d)
        occupancy_values == [i \in 1..Len(values) |-> values[i].occupancy]
        avg_room_occupancy == MeanOrZero(occupancy_values)
        property_occ_rate == IF total_checks > 0 THEN Frac(sold_out_checks * 100, total_checks)
                             ELSE Frac(0, 1)
        has_room_signal == room_type_estimate # NaN /\ room_type_estimate > 1
                           /\ occupancy_values # << >>
    IN  [occupancy_rate |-> property_occ_rate,
         preferred_occupancy_rate |-> IF has_room_signal /\ FracPos(avg_room_occupancy)
                                      THEN avg_room_occupancy ELSE property_occ_rate,
         preferred_occupancy_source |-> IF has_room_signal THEN "room" ELSE "property",
         property_occupancy_rate |-> property_occ_rate,
         room_type_count_estimate |-> room_type_estimate,
         avg_room_occupancy_rate |-> avg_room_occupancy]

\* the metrics row of the property
calculate_occupancy_metrics(d) ==
    LET total_checks == Len(d)
        sold_out_checks == Cardinality({ i \in 1..Len(d) : d[i].availability = "sold_out" })
        room_type_estimate == OccupancyEstimate(d)
        values == OccupancyValues(d)
        occupancy_values == [i \in 1..Len(values) |-> values[i].occupancy]
        avg_room_occupancy == MeanOrZero(occupancy_values)
        property_occ_rate == IF total_checks > 0 THEN Frac(sold_out_checks * 100, total_checks)
                             ELSE Frac(0, 1)
        has_room_signal == room_type_estimate # NaN /\ room_type_estimate > 1
                           /\ occupancy_values # << >>
    IN  [occupancy_rate |-> property_occ_rate,
         preferred_occupancy_rate |-> IF has_room_signal /\ FracPos(avg_room_occupancy)
                                      THEN avg_room_occupancy ELSE property_occ_rate,
         preferred_occupancy_source |-> IF has_room_signal /\ FracPos(avg_room_occupancy)
                                        THEN "room" ELSE "property",
         property_occupancy_rate |-> property_occ_rate,
         room_type_count_estimate |-> room_type_estimate,
         avg_room_occupancy_rate |-> avg_room_occupancy]

\* analyze_room_inventory: the sample of row i (skip: continue)
InventoryRowSample(d, i) ==
    LET row == d[i]
        total_rooms == IF row.total_room_types > 0 THEN row.total_room_types
                       ELSE current_total_rooms(d, i)
        available_rooms == IF row.available_room_types = NaN
                           THEN IF row.availability = "sold_out" THEN 0 ELSE total_rooms
                           ELSE row.available_room_types
        sold_out_rooms == Max2(total_rooms - available_rooms, 0)
    IN  [skip |-> total_rooms = NaN,
         total |-> total_rooms,
         available |-> available_rooms,
         sold |-> sold_out_rooms,
         occupancy |-> Frac(sold_out_rooms * 100, IF total_rooms = NaN THEN 1 ELSE total_rooms)]

InventoryRoomSamples(d) ==
    LET kept == SelectSeq([i \in 1..Len(d) |-> InventoryRowSample(d, i)], LAMBDA s : ~s.skip)
    IN  [i \in 1..Len(kept) |-> [total |-> kept[i].total, available |-> kept[i].available,
                                 sold |-> kept[i].sold, occupancy |-> kept[i].occupancy]]

NoMetrics == calculate_occupancy_metrics(<< >>)

NoOutput == [written |-> FALSE, pricing_metrics |-> << >>, occupancy_metrics |-> << >>,
             comparison |-> << >>]

NoComparison ==
    /\ c_phase = "off"
    /\ pricing_df = << >>
    /\ occupancy_df = << >>
    /\ c_idx = 0
    /\ comparisons = << >>
    /\ json_summary = NoOutput

NoAnalysis ==
    /\ a_phase = "off"
    /\ df = << >>
    /\ occupancy_samples = << >>
    /\ occupancy_metrics = NoMetrics
    /\ inventory_samples = << >>
    /\ NoComparison
    /\ NoPricingPage
    /\ m_phase = "off"
    /\ dataset = << >>
    /\ metrics = [pricing |-> << >>, occupancy |-> << >>]
    /\ room_deltas = << >>

\* load_pricing_data: one more record of the property, in check_in_date order
LoadRow ==
    /\ a_phase = "load"
    /\ Len(df) < MaxRows
    /\ \E row \in DatasetRows : df' = Append(df, row)
    /\ UNCHANGED << a_phase, occupancy_samples, occupancy_metrics, inventory_samples >>
    /\ UNCHANGED << session_vars, x_vars, c_vars, p_vars, m_vars >>

\* analyze.main: calculate_occupancy_metrics(df) and analyze_room_inventory(df)
Analyze ==
    /\ a_phase = "load"
    /\ a_phase' = "done"
    /\ occupancy_samples' = OccupancyValues(df)
    /\ occupancy_metrics' = calculate_occupancy_metrics(df)
    /\ inventory_samples' = InventoryRoomSamples(df)
    /\ UNCHANGED df
    /\ UNCHANGED << session_vars, x_vars, c_vars, p_vars, m_vars >>

----------------------------------------------------------------------------
(***************************************************************************)
(* compare_to_reference and the rest of analyze.main.  A metrics table is  *)
(* the sequence of its rows; pd.DataFrame() is the empty sequence, which   *)
(* has no columns.                                                         *)
(***************************************************************************)
REFERENCE_PROPERTY == "Ref"

Properties == <<"Ref", "B", "C">>

None == [some |-> FALSE, val |-> 0]

Some(v) == [some |-> TRUE, val |-> v]

\* what calculate_pricing_metrics can report for a property with priced
\* records: the preferred price is the room-level average when there is a
\* room signal and the property-level average otherwise
PricingProfiles ==
    { [property |-> 1000, room |-> NaN, source |-> "property"],
      [property |-> 1200, room |-> NaN, source |-> "property"],
      [property |-> 1000, room |-> 1200, source |-> "room"],
      [property |-> 1200, room |-> 1000, source |-> "room"],
      [property |-> 1200, room |-> 1000, source |-> "property"] }

\* what calculate_occupancy_metrics can report for a property
OccupancyProfiles ==
    { [property |-> 0, room |-> 0, source |-> "property"],
      [property |-> 50, room |-> 0, source |-> "property"],
      [property |-> 0, room |-> 50, source |-> "room"],
      [property |-> 50, room |-> 100, source |-> "room"],
      [property |-> 50, room |-> 100, source |-> "property"] }

PricingRow(hotel, p) ==
    [hotel_name |-> hotel,
     avg_price_per_night |-> p.property,
     preferred_price_per_night |-> IF p.source = "room" THEN p.room ELSE p.property,
     preferred_price_source |-> p.source,
     property_avg_price_per_night |-> p.property,
     avg_room_price_avg |-> p.room]

OccupancyRow(hotel, o) ==
    [hotel_name |-> hotel,
     occupancy_rate |-> o.property,
     preferred_occupancy_rate |-> IF o.source = "room" THEN o.room ELSE o.property,
     preferred_occupancy_source |-> o.source,
     property_occupancy_rate |-> o.property,
     avg_room_occupancy_rate |-> o.room]

\* df[df['hotel_name'] == hotel]
RowsOf(table, hotel) == SelectSeq(table, LAMBDA r : r.hotel_name = hotel)

Names(table) == { table[i].hotel_name : i \in 1..Len(table) }

\* the reference values read before the loop
RefValues(pricing, occupancy) ==
    LET ref_pricing == RowsOf(pricing, REFERENCE_PROPERTY)[1]
        ref_occupancy == RowsOf(occupancy, REFERENCE_PROPERTY)[1]
        ref_price == IF ref_pricing.preferred_price_per_night # NaN
                     THEN ref_pricing.preferred_price_per_night
                     ELSE ref_pricing.avg_price_per_night
        ref_occ == ref_occupancy.preferred_occupancy_rate
    IN  [ref_price |-> ref_price,
         ref_property_price |-> IF ref_pricing.property_avg_price_per_night # NaN
                                THEN ref_pricing.property_avg_price_per_night ELSE ref_price,
         ref_occ |-> ref_occ,
         ref_property_occ |-> IF ref_occupancy.property_occupancy_rate # NaN
                              THEN ref_occupancy.property_occupancy_rate ELSE ref_occ,
         ref_room_price |-> IF ref_pricing.avg_room_price_avg # NaN
                            THEN Some(ref_pricing.avg_room_price_avg) ELSE None,
         ref_room_occ |-> IF ref_occupancy.avg_room_occupancy_rate # NaN
                          THEN Some(ref_occupancy.avg_room_occupancy_rate) ELSE None]

\* as ComparisonRecord, with the labels taken from the property-level deltas
ComparisonRecord_PropertyLabels(row, occ_row, ref) ==
    LET preferred_price == IF row.preferred_price_per_night # NaN
                           THEN row.preferred_price_per_night ELSE row.avg_price_per_night
        property_price == IF row.property_avg_price_per_night # NaN
                          THEN row.property_avg_price_per_night ELSE preferred_price
        price_diff == preferred_price - ref.ref_price
        preferred_occ == occ_row.preferred_occupancy_rate
        property_occ == IF occ_row.property_occupancy_rate # NaN
                        THEN occ_row.property_occupancy_rate ELSE occ_row.occupancy_rate
        occ_diff == preferred_occ - ref.ref_occ
        has_room_price == row.avg_room_price_avg # NaN /\ ref.ref_room_price.some
        has_room_occ == occ_row.avg_room_occupancy_rate # NaN /\ ref.ref_room_occ.some
    IN  [hotel_name |-> row.hotel_name,
         avg_price |-> preferred_price,
         price_vs_ref |-> price_diff,
         price_vs_ref_pct |-> IF ref.ref_price > 0 THEN Frac(price_diff * 100, ref.ref_price)
                              ELSE Frac(0, 1),
         property_avg_price |-> property_price,
         property_price_vs_ref |-> IF ref.ref_property_price # 0
                                   THEN Some(property_price - ref.ref_property_price) ELSE None,
         occupancy |-> preferred_occ,
         occ_vs_ref |-> occ_diff,
         property_occupancy |-> property_occ,
         property_occ_vs_ref |-> property_occ - ref.ref_property_occ,
         position |-> IF property_price - ref.ref_property_price > 0
                      THEN "Higher Price" ELSE "Lower Price",
         demand |-> IF property_occ - ref.ref_property_occ > 0
                    THEN "Higher Demand" ELSE "Lower Demand",
         room_price_vs_ref |-> IF has_room_price
                               THEN Some(row.avg_room_price_avg - ref.ref_room_price.val)
                               ELSE None,
         room_occ_vs_ref |-> IF has_room_occ
                             THEN Some(occ_row.avg_room_occupancy_rate - ref.ref_room_occ.val)
                             ELSE None,
         preferred_price_source |-> row.preferred_price_source,
         preferred_occupancy_source |-> occ_row.preferred_occupancy_source]

\* the dict appended to comparisons for a pricing row and its occupancy row
ComparisonRecord(row, occ_row, ref) ==
    LET preferred_price == IF row.preferred_price_per_night # NaN
                           THEN row.preferred_price_per_night ELSE row.avg_price_per_night
        property_price == IF row.property_avg_price_per_night # NaN
                          THEN row.property_avg_price_per_night ELSE preferred_price
        price_diff == preferred_price - ref.ref_price
        preferred_occ == occ_row.preferred_occupancy_rate
        property_occ == IF occ_row.property_occupancy_rate # NaN
                        THEN occ_row.property_occupancy_rate ELSE occ_row.occupancy_rate
        occ_diff == preferred_occ - ref.ref_occ
        has_room_price == row.avg_room_price_avg # NaN /\ ref.ref_room_price.some
        has_room_occ == occ_row.avg_room_occupancy_rate # NaN /\ ref.ref_room_occ.some
    IN  [hotel_name |-> row.hotel_name,
         avg_price |-> preferred_price,
         price_vs_ref |-> price_diff,
         price_vs_ref_pct |-> IF ref.ref_price > 0 THEN Frac(price_diff * 100, ref.ref_price)
                              ELSE Frac(0, 1),
         property_avg_price |-> property_price,
         property_price_vs_ref |-> IF ref.ref_property_price # 0
                                   THEN Some(property_price - ref.ref_property_price) ELSE None,
         occupancy |-> preferred_occ,
         occ_vs_ref |-> occ_diff,
         property_occupancy |-> property_occ,
         property_occ_vs_ref |-> property_occ - ref.ref_property_occ,
         position |-> IF price_diff > 0 THEN "Higher Price" ELSE "Lower Price",
         demand |-> IF occ_diff > 0 THEN "Higher Demand" ELSE "Lower Demand",
         room_price_vs_ref |-> IF has_room_price
                               THEN Some(row.avg_room_price_avg - ref.ref_room_price.val)
                               ELSE None,
         room_occ_vs_ref |-> IF has_room_occ
                             THEN Some(occ_row.avg_room_occupancy_rate - ref.ref_room_occ.val)
                             ELSE None,
         preferred_price_source |-> row.preferred_price_source,
         preferred_occupancy_source |-> occ_row.preferred_occupancy_source]

FracLess(a, b) == a.num * b.den < b.num * a.den

\* sort_values('price_vs_ref_pct'); rows with equal keys keep their order
RECURSIVE SortByPct(_)
SortByPct(s) ==
    IF s = << >> THEN << >>
    ELSE LET rest == SortByPct(Tail(s))
             before == SelectSeq(rest, LAMBDA r : FracLess(r.price_vs_ref_pct,
                                                           Head(s).price_vs_ref_pct))
             after == SelectSeq(rest, LAMBDA r : ~FracLess(r.price_vs_ref_pct,
                                                           Head(s).price_vs_ref_pct))
         IN  before \o << Head(s) >> \o after

\* analyze.main after the two metrics tables are computed, and
\* compare_to_reference up to its loop
CompareStart ==
    /\ c_phase = "metrics"
    /\ IF pricing_df = << >> /\ occupancy_df = << >>
       THEN c_phase' = "insufficient"
       ELSE IF pricing_df = << >> \/ occupancy_df = << >>
       THEN c_phase' = "raised"
       ELSE IF RowsOf(pricing_df, REFERENCE_PROPERTY) = << >>
               \/ RowsOf(occupancy_df, REFERENCE_PROPERTY) = << >>
       THEN c_phase' = "compared"
       ELSE c_phase' = "rows"
    /\ UNCHANGED << pricing_df, occupancy_df, c_idx, comparisons, json_summary >>
    /\ UNCHANGED << session_vars, x_vars, a_vars, p_vars, m_vars >>

\* one iteration of for _, row in pricing_df.iterrows()
CompareRow ==
    /\ c_phase = "rows"
    /\ c_idx < Len(pricing_df)
    /\ c_idx' = c_idx + 1
    /\ LET row == pricing_df[c_idx + 1]
           occ_row == RowsOf(occupancy_df, row.hotel_name)
       IN  IF row.hotel_name = REFERENCE_PROPERTY \/ occ_row = << >>
           THEN UNCHANGED comparisons
           ELSE comparisons' = Append(comparisons,
                    ComparisonRecord(row, occ_row[1], RefValues(pricing_df, occupancy_df)))
    /\ UNCHANGED << c_phase, pricing_df, occupancy_df, json_summary >>
    /\ UNCHANGED << session_vars, x_vars, a_vars, p_vars, m_vars >>

\* return pd.DataFrame(comparisons).sort_values('price_vs_ref_pct'): a frame
\* built from no rows has no such column
CompareReturn ==
    /\ c_phase = "rows"
    /\ c_idx = Len(pricing_df)
    /\ IF comparisons = << >>
       THEN /\ c_phase' = "raised"
            /\ UNCHANGED comparisons
       ELSE /\ c_phase' = "compared"
            /\ comparisons' = SortByPct(comparisons)
    /\ UNCHANGED << pricing_df, occupancy_df, c_idx, json_summary >>
    /\ UNCHANGED << session_vars, x_vars, a_vars, p_vars, m_vars >>

\* generate_json_summary: the analysis object written to ANALYSIS_JSON
GenerateSummary ==
    /\ c_phase = "compared"
    /\ c_phase' = "written"
    /\ json_summary' = [written |-> TRUE, pricing_metrics |-> pricing_df,
                        occupancy_metrics |-> occupancy_df, comparison |-> comparisons]
    /\ UNCHANGED << pricing_df, occupancy_df, c_idx, comparisons >>
    /\ UNCHANGED << session_vars, x_vars, a_vars, p_vars, m_vars >>

----------------------------------------------------------------------------
(***************************************************************************)
(* analyze.main from the dataset to the room-level part of the comparison. *)
(* A cell of a metrics table computed here is None (NaN, None) or          *)
(* Some(fraction).                                                         *)
(***************************************************************************)
FracSub(a, b) == Frac(a.num * b.den - b.num * a.den, a.den * b.den)

\* a / b * 100 for b > 0
FracPct(a, b) == Frac(a.num * b.den * 100, a.den * b.num)

\* a record of the dataset: r holds the room counts and the availability,
\* total_price and room_price are NaN or amounts for the whole stay
DatasetRecord(hotel, r, total_price, room_price) ==
    [hotel_name |-> hotel,
     nights |-> 2,
     availability |-> r.availability,
     total_room_types |-> r.total_room_types,
     available_room_types |-> r.available_room_types,
     total_price |-> total_price,
     price_per_night |-> IF total_price = NaN THEN NaN ELSE total_price \div 2,
     min_room_price |-> room_price,
     max_room_price |-> room_price,
     avg_room_price |-> room_price]

\* df[df['hotel_name'] == hotel]
HotelDf(ds, hotel) == SelectSeq(ds, LAMBDA r : r.hotel_name = hotel)

\* df['hotel_name'].unique(): in order of first appearance
RECURSIVE HotelNames(_)
HotelNames(ds) ==
    IF ds = << >> THEN << >>
    ELSE AddOnce(HotelNames(SubSeq(ds, 1, Len(ds) - 1)), ds[Len(ds)].hotel_name)

\* Series.mean(): the mean of the values that are not NaN, NaN when there are none
MeanCell(values) ==
    LET present == SelectSeq(values, LAMBDA v : v # NaN)
    IN  IF present = << >> THEN None
        ELSE Some(MeanOrZero([i \in 1..Len(present) |-> Frac(present[i], 1)]))

\* calculate_pricing_metrics.as_per_night
as_per_night(row, value) ==
    IF value = NaN THEN NaN
    ELSE IF row.nights # NaN /\ row.nights > 0 THEN value \div row.nights
    ELSE IF row.price_per_night # NaN THEN row.price_per_night
    ELSE value

\* calculate_pricing_metrics: the row of a hotel with priced records hotel_df
PricingMetricsRow(hotel, hotel_df) ==
    LET room_priced == SelectSeq(hotel_df, LAMBDA r : r.min_room_price # NaN)
        avg_room_price_avg ==
            IF room_priced # << >>
            THEN MeanCell([i \in 1..Len(room_priced) |->
                              as_per_night(room_priced[i], room_priced[i].avg_room_price)])
            ELSE None
        property_avg_price == MeanCell([i \in 1..Len(hotel_df) |-> hotel_df[i].price_per_night])
        room_type_counts == { hotel_df[i].total_room_types : i \in 1..Len(hotel_df) } \ {NaN}
        room_type_estimate == IF room_type_counts = {} THEN NaN ELSE Max(room_type_counts)
        has_room_signal == /\ room_priced # << >>
                           /\ avg_room_price_avg.some
                           /\ room_type_estimate # NaN
                           /\ room_type_estimate > 1
    IN  [hotel_name |-> hotel,
         avg_price_per_night |-> property_avg_price,
         preferred_price_per_night |-> IF has_room_signal THEN avg_room_price_avg
                                       ELSE property_avg_price,
         preferred_price_source |-> IF has_room_signal THEN "room" ELSE "property",
         property_avg_price_per_night |-> property_avg_price,
         room_type_count_estimate |-> room_type_estimate,
         avg_room_price_avg |-> avg_room_price_avg]

\* sort_values('avg_price_per_night', ascending=False); NaN last, ties keep
\* their order
RECURSIVE SortByAvgPrice(_)
SortByAvgPrice(s) ==
    IF s = << >> THEN << >>
    ELSE LET Above(r) == /\ r.avg_price_per_night.some
                         /\ \/ ~Head(s).avg_price_per_night.some
                            \/ FracLess(Head(s).avg_price_per_night.val,
                                        r.avg_price_per_night.val)
             rest == SortByAvgPrice(Tail(s))
         IN  SelectSeq(rest, Above) \o << Head(s) >> \o SelectSeq(rest, LAMBDA r : ~Above(r))

\* the pricing metrics table of the dataset
calculate_pricing_metrics(ds) ==
    LET df_priced == SelectSeq(ds, LAMBDA r : r.availability = "available"
                                              /\ r.total_price # NaN)
        priced_hotels == SelectSeq(HotelNames(ds), LAMBDA h : HotelDf(df_priced, h) # << >>)
    IN  SortByAvgPrice([i \in 1..Len(priced_hotels) |->
                           PricingMetricsRow(priced_hotels[i], HotelDf(df_priced, priced_hotels[i]))])

\* the row m of calculate_occupancy_metrics as the table holds it
OccupancyTableRow(hotel, m) ==
    [hotel_name |-> hotel,
     occupancy_rate |-> Some(m.occupancy_rate),
     preferred_occupancy_rate |-> Some(m.preferred_occupancy_rate),
     preferred_occupancy_source |-> m.preferred_occupancy_source,
     property_occupancy_rate |-> Some(m.property_occupancy_rate),
     room_type_count_estimate |-> m.room_type_count_estimate,
     avg_room_occupancy_rate |-> Some(m.avg_room_occupancy_rate)]

\* calculate_occupancy_metrics: the row of a hotel with records hotel_df
OccupancyMetricsRow(hotel, hotel_df) ==
    OccupancyTableRow(hotel, calculate_occupancy_metrics(hotel_df))

\* sort_values('occupancy_rate', ascending=False); ties keep their order
RECURSIVE SortByOccupancyRate(_)
SortByOccupancyRate(s) ==
    IF s = << >> THEN << >>
    ELSE LET Above(r) == FracLess(Head(s).occupancy_rate.val, r.occupancy_rate.val)
             rest == SortByOccupancyRate(Tail(s))
         IN  SelectSeq(rest, Above) \o << Head(s) >> \o SelectSeq(rest, LAMBDA r : ~Above(r))

\* calculate_occupancy_metrics over every hotel of the dataset
OccupancyMetricsTable(ds) ==
    LET hotels == HotelNames(ds)
    IN  SortByOccupancyRate([i \in 1..Len(hotels) |->
                                OccupancyMetricsRow(hotels[i], HotelDf(ds, hotels[i]))])

\* compare_to_reference: the percentage delta the result is sorted by and the
\* room-level fields of the record of one pricing row
RoomLevelDeltas(row, occ_row, ref_pricing, ref_occupancy) ==
    LET ref_price == IF ref_pricing.preferred_price_per_night.some
                     THEN ref_pricing.preferred_price_per_night
                     ELSE ref_pricing.avg_price_per_night
        preferred_price == IF row.preferred_price_per_night.some
                           THEN row.preferred_price_per_night ELSE row.avg_price_per_night
        price_diff == FracSub(preferred_price.val, ref_price.val)
        ref_room_price == IF ref_pricing.avg_room_price_avg.some
                          THEN ref_pricing.avg_room_price_avg ELSE None
        ref_room_occ == IF ref_occupancy.avg_room_occupancy_rate.some
                        THEN ref_occupancy.avg_room_occupancy_rate ELSE None
        has_room_price == row.avg_room_price_avg.some /\ ref_room_price.some
        has_room_occ == occ_row.avg_room_occupancy_rate.some /\ ref_room_occ.some
    IN  [hotel_name |-> row.hotel_name,
         price_vs_ref_pct |-> IF FracPos(ref_price.val) THEN FracPct(price_diff, ref_price.val)
                              ELSE Frac(0, 1),
         room_avg_price |-> IF has_room_price THEN row.avg_room_price_avg ELSE None,
         room_price_vs_ref |-> IF has_room_price
                               THEN Some(FracSub(row.avg_room_price_avg.val, ref_room_price.val))
                               ELSE None,
         room_occupancy |-> IF has_room_occ THEN occ_row.avg_room_occupancy_rate ELSE None,
         room_occ_vs_ref |-> IF has_room_occ
                             THEN Some(FracSub(occ_row.avg_room_occupancy_rate.val,
                                               ref_room_occ.val))
                             ELSE None]

\* compare_to_reference: the records of the loop over the pricing table
ComparedRows(pricing, occupancy) ==
    LET ref_pricing == RowsOf(pricing, REFERENCE_PROPERTY)[1]
        ref_occupancy == RowsOf(occupancy, REFERENCE_PROPERTY)[1]
        compared == SelectSeq(pricing, LAMBDA row : /\ row.hotel_name # REFERENCE_PROPERTY
                                                    /\ RowsOf(occupancy, row.hotel_name) # << >>)
    IN  [i \in 1..Len(compared) |->
            RoomLevelDeltas(compared[i], RowsOf(occupancy, compared[i].hotel_name)[1],
                            ref_pricing, ref_occupancy)]

NoTables == [pricing |-> << >>, occupancy |-> << >>]

NoMetricsRun ==
    /\ m_phase = "off"
    /\ dataset = << >>
    /\ metrics = NoTables
    /\ room_deltas = << >>

\* load_pricing_data: one more record of the dataset
LoadRecord ==
    /\ m_phase = "load"
    /\ Len(dataset) < MaxChecks
    /\ \E hotel \in {REFERENCE_PROPERTY, "B"}, r \in DatasetRows,
          total_price \in {NaN, 2000}, room_price \in {NaN, 1600} :
         /\ r.availability = "error" => total_price = NaN
         /\ room_price # NaN => (r.available_room_types # NaN /\ r.available_room_types > 0)
         /\ dataset' = Append(dataset, DatasetRecord(hotel, r, total_price, room_price))
    /\ UNCHANGED << m_phase, metrics, room_deltas >>
    /\ UNCHANGED << session_vars, x_vars, a_vars, c_vars, p_vars >>

\* analyze.main: the early return on an empty dataset, the two metrics
\* tables, the early return when both are empty
CalculateMetrics ==
    /\ m_phase = "load"
    /\ IF dataset = << >>
       THEN /\ m_phase' = "insufficient"
            /\ UNCHANGED metrics
       ELSE LET occupancy == OccupancyMetricsTable(dataset)
                pricing == calculate_pricing_metrics(dataset)
            IN  /\ metrics' = [pricing |-> pricing, occupancy |-> occupancy]
                /\ m_phase' = IF pricing = << >> /\ occupancy = << >>
                              THEN "insufficient" ELSE "metrics"
    /\ UNCHANGED << dataset, room_deltas >>
    /\ UNCHANGED << session_vars, x_vars, a_vars, c_vars, p_vars >>

\* compare_to_reference(pricing_metrics, occupancy_metrics)
CompareMetrics ==
    /\ m_phase = "metrics"
    /\ IF metrics.pricing = << >> \/ metrics.occupancy = << >>
       THEN /\ m_phase' = "raised"                       \* df['hotel_name'] of pd.DataFrame()
            /\ UNCHANGED room_deltas
       ELSE IF RowsOf(metrics.pricing, REFERENCE_PROPERTY) = << >>
               \/ RowsOf(metrics.occupancy, REFERENCE_PROPERTY) = << >>
       THEN /\ m_phase' = "compared"
            /\ UNCHANGED room_deltas
       ELSE LET comparisons_ == ComparedRows(metrics.pricing, metrics.occupancy)
            IN  IF comparisons_ = << >>
                THEN /\ m_phase' = "raised"              \* sort_values on a frame without columns
                     /\ UNCHANGED room_deltas
                ELSE /\ m_phase' = "compared"
                     /\ room_deltas' = SortByPct(comparisons_)
    /\ UNCHANGED << dataset, metrics >>
    /\ UNCHANGED << session_vars, x_vars, a_vars, c_vars, p_vars >>

----------------------------------------------------------------------------
\* a row collected on day 0, before the behaviour starts
OldRow(slug) == [ExtractedRecord(slug, "available", 0) EXCEPT !.day_offset = 0]

OldRows(hotels) == [i \in 1..Len(hotels) |-> OldRow(hotels[i])]

PriorCycle ==
    \/ /\ progress_file \in MalformedFiles
       /\ pricing_csv = NoFile
       /\ analysis_json = NoFile
       /\ scrape_log = NoFile
    \/ /\ progress_file \in { ProgressObject(0, all_hotels), ProgressObject(0, <<"A">>) }
       /\ pricing_csv = CsvFile(OldRows(progress_file.completed_properties))
       /\ analysis_json = DatedFile(0)
       /\ scrape_log \in { NoFile, DatedFile(0) }

Idle ==
    /\ csv_archives = {}
    /\ json_archives = {}
    /\ pc = "idle"
    /\ hotels_to_scrape = << >>
    /\ already_completed = << >>
    /\ is_new_day = FALSE
    /\ completed_slugs = << >>
    /\ idx = 0
    /\ all_pricing = << >>
    /\ batches = << >>
    /\ trace = << >>
    /\ exit = "none"
    /\ runs = 0

NoExtraction ==
    /\ x_phase = "off"
    /\ x_pos = 0
    /\ x_start = 0
    /\ x_scan = ScanStart
    /\ x_json = JsonStart
    /\ x_end = 0
    /\ x_close = ""
    /\ x_result = "none"
    /\ x_seen = {}
    /\ x_literal = NoLiteral

\* three properties, a few dates each, a site that always answers
Init ==
    /\ today = 1
    /\ all_hotels = <<"A", "B", "C">>
    /\ num_dates \in 0..MaxDates
    /\ site = {"available"}
    /\ PriorCycle
    /\ Idle
    /\ NoExtraction
    /\ NoAnalysis

\* one or two properties, enough dates for full batches, a site that can fail
InitBatch ==
    /\ today = 1
    /\ \/ all_hotels = <<"A">> /\ num_dates \in 0..MaxBatchDates
       \/ all_hotels = <<"A", "B">> /\ num_dates \in 0..MaxDates
    /\ site = Outcomes
    /\ PriorCycle
    /\ Idle
    /\ NoExtraction
    /\ NoAnalysis

Next ==
    \/ StartRun
    \/ Archive
    \/ OpenCsv
    \/ FetchDate
    \/ RaiseInCollect
    \/ ReturnPricing
    \/ MarkCompleted
    \/ Interrupt
    \/ Tick

NextBatch ==
    \/ StartRun
    \/ Archive
    \/ OpenCsv
    \/ FetchDate
    \/ RaiseInCollect
    \/ ReturnPricing
    \/ MarkCompleted

vars == << session_vars, x_vars, y_vars >>

Spec == Init /\ [][Next]_vars

SpecBatch == InitBatch /\ [][NextBatch]_vars

\* runs of main on one day between which the configured list is edited
InitEdit ==
    /\ today = 1
    /\ all_hotels \in HotelLists
    /\ num_dates \in 0..MaxDates
    /\ site = {"available"}
    /\ PriorCycle
    /\ Idle
    /\ NoExtraction
    /\ NoAnalysis

NextEdit ==
    \/ StartRun
    \/ Archive
    \/ OpenCsv
    \/ FetchDate
    \/ RaiseInCollect
    \/ ReturnPricing
    \/ MarkCompleted
    \/ EditHotels

SpecEdit == InitEdit /\ [][NextEdit]_vars

InitExtract ==
    /\ today = 1
    /\ all_hotels = <<"A">>
    /\ num_dates = 0
    /\ site = {}
    /\ progress_file = MissingFile
    /\ pricing_csv = NoFile
    /\ analysis_json = NoFile
    /\ scrape_log = NoFile
    /\ Idle
    /\ x_phase = "search"
    /\ x_pos = 0
    /\ x_start = 0
    /\ x_scan = ScanStart
    /\ x_json = JsonStart
    /\ x_end = 0
    /\ x_close = ""
    /\ x_result = "none"
    /\ x_seen = {}
    /\ x_literal = NoLiteral
    /\ NoAnalysis

NextExtract ==
    \/ ReadChar
    \/ EndOfText

SpecExtract == InitExtract /\ [][NextExtract]_vars

\* the analysis of one property's records
InitOccupancy ==
    /\ today = 1
    /\ all_hotels = <<"A">>
    /\ num_dates = 0
    /\ site = {}
    /\ progress_file = MissingFile
    /\ pricing_csv = NoFile
    /\ analysis_json = NoFile
    /\ scrape_log = NoFile
    /\ Idle
    /\ NoExtraction
    /\ a_phase = "load"
    /\ df = << >>
    /\ occupancy_samples = << >>
    /\ occupancy_metrics = NoMetrics
    /\ inventory_samples = << >>
    /\ NoComparison
    /\ NoPricingPage
    /\ NoMetricsRun

NextOccupancy ==
    \/ LoadRow
    \/ Analyze

SpecOccupancy == InitOccupancy /\ [][NextOccupancy]_vars

\* the metrics of a dataset: each property has no records, records without a
\* price only, or priced records
TableOf(rows, present) ==
    SelectSeq(rows, LAMBDA r : r.hotel_name \in present)

InitCompare ==
    /\ today = 1
    /\ all_hotels = <<"A">>
    /\ num_dates = 0
    /\ site = {}
    /\ progress_file = MissingFile
    /\ pricing_csv = NoFile
    /\ analysis_json = NoFile
    /\ scrape_log = NoFile
    /\ Idle
    /\ NoExtraction
    /\ a_phase = "off"
    /\ df = << >>
    /\ occupancy_samples = << >>
    /\ occupancy_metrics = NoMetrics
    /\ inventory_samples = << >>
    /\ c_phase = "metrics"
    /\ \E in_df \in SUBSET Range(Properties) :
       \E priced \in SUBSET in_df :
       \E p \in [1..Len(Properties) -> PricingProfiles] :
       \E o \in [1..Len(Properties) -> OccupancyProfiles] :
         /\ \A i \in 1..Len(Properties) :
               /\ Properties[i] \notin priced => p[i] = CHOOSE q \in PricingProfiles : TRUE
               /\ Properties[i] \notin in_df => o[i] = CHOOSE q \in OccupancyProfiles : TRUE
         /\ pricing_df = TableOf([i \in 1..Len(Properties) |->
                                     PricingRow(Properties[i], p[i])], priced)
         /\ occupancy_df = TableOf([i \in 1..Len(Properties) |->
                                       OccupancyRow(Properties[i], o[i])], in_df)
    /\ c_idx = 0
    /\ comparisons = << >>
    /\ json_summary = NoOutput
    /\ NoPricingPage
    /\ NoMetricsRun

NextCompare ==
    \/ CompareStart
    \/ CompareRow
    \/ CompareReturn
    \/ GenerateSummary

SpecCompare == InitCompare /\ [][NextCompare]_vars

\* the archives of the days before day 0 that earlier runs have left
OldArchives(first) == { [key |-> k, rows |-> << >>] : k \in first..(-1) }

OldAnalysisArchives(first) == { [key |-> k, content |-> k] : k \in first..(-1) }

\* a new day after a complete cycle, with up to MAX_ARCHIVE_FILES archives
\* of each kind in the archive directory
InitArchive ==
    /\ today = 1
    /\ all_hotels = <<"A">>
    /\ num_dates \in 0..MaxDates
    /\ site = {"available"}
    /\ progress_file = ProgressObject(0, all_hotels)
    /\ pricing_csv = CsvFile(OldRows(all_hotels))
    /\ analysis_json \in { NoFile, DatedFile(0) }
    /\ scrape_log \in { NoFile, DatedFile(0) }
    /\ \E c \in 0..MAX_ARCHIVE_FILES : csv_archives = OldArchives(-c)
    /\ \E j \in 0..MAX_ARCHIVE_FILES : json_archives = OldAnalysisArchives(-j)
    /\ pc = "idle"
    /\ hotels_to_scrape = << >>
    /\ already_completed = << >>
    /\ is_new_day = FALSE
    /\ completed_slugs = << >>
    /\ idx = 0
    /\ all_pricing = << >>
    /\ batches = << >>
    /\ trace = << >>
    /\ exit = "none"
    /\ runs = 0
    /\ NoExtraction
    /\ NoAnalysis

SpecArchive == InitArchive /\ [][NextBatch]_vars

\* the extraction of one page
InitPage ==
    /\ today = 1
    /\ all_hotels = <<"A">>
    /\ num_dates = 0
    /\ site = {}
    /\ progress_file = MissingFile
    /\ pricing_csv = NoFile
    /\ analysis_json = NoFile
    /\ scrape_log = NoFile
    /\ Idle
    /\ NoExtraction
    /\ a_phase = "off"
    /\ df = << >>
    /\ occupancy_samples = << >>
    /\ occupancy_metrics = NoMetrics
    /\ inventory_samples = << >>
    /\ NoComparison
    /\ p_phase = "fetch"
    /\ page = NoPage
    /\ pricing_record = NoPageRecord
    /\ NoMetricsRun

NextPage ==
    \/ PageContent
    \/ ExtractPricing

SpecPage == InitPage /\ [][NextPage]_vars

\* the analysis of a dataset with records of the reference and of one other
\* property
InitMetrics ==
    /\ today = 1
    /\ all_hotels = <<"A">>
    /\ num_dates = 0
    /\ site = {}
    /\ progress_file = MissingFile
    /\ pricing_csv = NoFile
    /\ analysis_json = NoFile
    /\ scrape_log = NoFile
    /\ Idle
    /\ NoExtraction
    /\ a_phase = "off"
    /\ df = << >>
    /\ occupancy_samples = << >>
    /\ occupancy_metrics = NoMetrics
    /\ inventory_samples = << >>
    /\ NoComparison
    /\ NoPricingPage
    /\ m_phase = "load"
    /\ dataset = << >>
    /\ metrics = NoTables
    /\ room_deltas = << >>

NextMetrics ==
    \/ LoadRecord
    \/ CalculateMetrics
    \/ CompareMetrics

SpecMetrics == InitMetrics /\ [][NextMetrics]_vars

----------------------------------------------------------------------------
(***************************************************************************)
(* Properties of the session tracker and of main.                          *)
(***************************************************************************)
\* position of a slug in the configured list (0 when not configured)
IndexIn(hotels, slug) ==
    IF Contains(hotels, slug) THEN CHOOSE i \in 1..Len(hotels) : hotels[i] = slug ELSE 0

\* the rows a step appends to the live dataset
AppendedRows ==
    IF Len(pricing_csv'.rows) > Len(pricing_csv.rows)
    THEN SubSeq(pricing_csv'.rows, Len(pricing_csv.rows) + 1, Len(pricing_csv'.rows))
    ELSE << >>

InRun == pc # "idle"

\* the step in which main asks the tracker
Asks == pc = "idle" /\ runs' = runs + 1

StoredDate == load_daily_progress(progress_file).date

StoredCompleted == load_daily_progress(progress_file).completed_properties

\* C1: on a same-day run with a partly completed list, the remaining list is
\* exactly the configured properties not in the completed list, in configured
\* order, and every row the run appends belongs to one of them, never to an
\* already completed property.
C1_ResumeSkipsCompleted ==
    /\ [][ (Asks /\ StoredDate = today /\ Len(StoredCompleted) < Len(all_hotels))
            => /\ pc' = "setup"
               /\ ~is_new_day'
               /\ already_completed' = StoredCompleted
               /\ Range(hotels_to_scrape') = Range(all_hotels) \ Range(StoredCompleted)
               /\ \A i, j \in 1..Len(hotels_to_scrape') :
                    i < j => IndexIn(all_hotels, hotels_to_scrape'[i])
                               < IndexIn(all_hotels, hotels_to_scrape'[j]) ]_vars
    /\ [][ (InRun /\ ~is_new_day)
            => \A i \in 1..Len(AppendedRows) :
                 /\ AppendedRows[i].hotel_slug \notin Range(already_completed)
                 /\ AppendedRows[i].hotel_slug \in Range(hotels_to_scrape) ]_vars

\* completed [A], all [A,B,C]: the run resumes with [B,C] and has appended C's rows
C1_Witness ==
    /\ pc = "returned"
    /\ ~is_new_day
    /\ already_completed = <<"A">>
    /\ hotels_to_scrape = <<"B", "C">>
    /\ idx = 2
    /\ batches # << >>

\* C2: on a run whose stored date differs from today the tracker returns the
\* full configured list with an empty completed list, and archive_existing_data
\* runs before the live dataset is truncated and before any row is appended.
C2_FreshArchivesFirst ==
    /\ [][ (Asks /\ load_daily_progress(progress_file).type = "object"
                 /\ "date" \in load_daily_progress(progress_file).keys
                 /\ StoredDate # today /\ all_hotels # << >>)
            => /\ pc' = "setup"
               /\ is_new_day'
               /\ hotels_to_scrape' = all_hotels
               /\ already_completed' = << >>
               /\ completed_slugs' = << >> ]_vars
    /\ [] ((InRun /\ is_new_day /\ trace # << >>) => trace[1] = "archive")
    /\ [][ (InRun /\ is_new_day /\ pricing_csv' # pricing_csv) => Contains(trace, "archive") ]_vars

\* yesterday's document named [A]; today's run archived, truncated, then appended
C2_Witness ==
    /\ pc = "returned"
    /\ is_new_day
    /\ hotels_to_scrape = all_hotels
    /\ trace = <<"archive", "truncate", "append">>
    /\ \E a \in csv_archives : a.rows = OldRows(<<"A">>)

\* C3: when an exception leaves fetch_all_pricing, the property is not marked,
\* the progress document is not written, the run stops, and a later run on any
\* day finds the failed property in its remaining list; every collection starts
\* at the first date.
C3_RaiseLeavesPropertyPending ==
    /\ [][ (pc = "collect" /\ exit' = "aborted")
            => /\ pc' = "idle"
               /\ progress_file' = progress_file
               /\ ~Contains(StoredCompleted, Slug) \/ StoredDate # today
               /\ idx > 1 => StoredCompleted = completed_slugs
               /\ \A d \in today..MaxDay :
                    LET r == get_properties_to_scrape(progress_file', d, all_hotels)
                    IN  ~r.raised /\ Contains(r.remaining, Slug) ]_vars
    /\ [] (all_pricing # << >> => all_pricing[1].day_offset = 0)

\* A finished, then B raised: the document still names [A] only
C3_Witness ==
    /\ exit = "aborted"
    /\ progress_file = ProgressObject(today, <<"A">>)
    /\ pricing_csv.rows # << >>

\* C4: the progress document is written after each property's collection has
\* returned, with records or with none, and before the next collection starts;
\* it is never written during a collection; after k properties it lists the
\* initial completed list followed by those k identifiers in processing order.
C4_MarkAfterEachProperty ==
    /\ [] (pc \in {"collect", "returned"}
            => /\ completed_slugs = already_completed \o SubSeq(hotels_to_scrape, 1, idx - 1)
               /\ idx > 1 => /\ progress_file.state = "json"
                             /\ StoredCompleted = completed_slugs)
    /\ [][ pc = "collect" => progress_file' = progress_file ]_vars
    /\ [][ (pc = "returned" /\ pc' # "returned" /\ exit' # "killed")
            => progress_file' = ProgressObject(today,
                   already_completed \o SubSeq(hotels_to_scrape, 1, idx)) ]_vars

\* two properties finished with an empty "no data" list each; the third is running
C4_Witness ==
    /\ pc = "collect"
    /\ num_dates = 0
    /\ idx = 3
    /\ progress_file = ProgressObject(today, <<"A", "B">>)

\* C5: on a same-day run where every configured property is in the stored
\* completed list, main returns at once: the dataset, the archives and the
\* progress document are unchanged.
C5_DoneDoesNothing ==
    [][ (Asks /\ load_daily_progress(progress_file).type = "object"
              /\ "date" \in load_daily_progress(progress_file).keys
              /\ StoredDate = today
              /\ Range(all_hotels) \subseteq Range(StoredCompleted))
         => /\ pc' = "idle"
            /\ exit' = "done"
            /\ UNCHANGED << pricing_csv, csv_archives, json_archives, progress_file,
                            analysis_json, scrape_log >> ]_vars

C5_Witness ==
    /\ exit = "done"
    /\ progress_file = ProgressObject(today, all_hotels)
    /\ pricing_csv.exists

\* C6: a malformed progress document of any kind makes the tracker return the
\* full list as on a new day, without raising.
C6_MalformedIsFresh ==
    (progress_file \in MalformedFiles /\ exit # "none")
        => /\ exit # "raised"
           /\ LET r == get_properties_to_scrape(progress_file, today, all_hotels)
              IN  /\ ~r.raised
                  /\ r.is_new_day
                  /\ r.remaining = all_hotels
                  /\ r.completed = << >>

----------------------------------------------------------------------------
(***************************************************************************)
(* Properties of fetch_all_pricing's batching.                             *)
(***************************************************************************)
\* the records of the current collection that full batches have covered
FullBatchPrefix(ap) == SubSeq(ap, 1, Len(ap) - (Len(ap) % SAVE_BATCH_SIZE))

\* C7: the batches passed to save_batch hold each record once, in production
\* order: during a collection they are the full batches so far, at its end
\* their concatenation is the returned list, for every record count; the rows
\* in the dataset end with them, and rows of different properties never
\* interleave.
C7_BatchesAreTheRecords ==
    /\ pc = "collect"
         => /\ Flatten(batches) = FullBatchPrefix(all_pricing)
            /\ \A b \in 1..Len(batches) : Len(batches[b]) = SAVE_BATCH_SIZE
    /\ pc = "returned"
         => /\ Len(all_pricing) = num_dates
            /\ Flatten(batches) = all_pricing
            /\ Len(pricing_csv.rows) >= Len(all_pricing)
            /\ all_pricing # << >> => LastN(pricing_csv.rows, Len(all_pricing)) = all_pricing
    /\ \A i, j \in 1..Len(pricing_csv.rows) :
         i < j => IndexIn(all_hotels, pricing_csv.rows[i].hotel_slug)
                    <= IndexIn(all_hotels, pricing_csv.rows[j].hotel_slug)

\* eleven records: one full batch and a final batch of one
C7_Witness ==
    /\ pc = "returned"
    /\ Len(all_pricing) = SAVE_BATCH_SIZE + 1
    /\ Len(batches) = 2
    /\ Len(batches[2]) = 1

PriceFields == {"total_price", "price_per_night", "has_discount"}

RoomFields == {"total_room_types", "available_room_types"}

----------------------------------------------------------------------------
(***************************************************************************)
(* Properties of extract_rooms_json_from_html.                             *)
(***************************************************************************)
\* the text from start_pos up to here can still grow into a JSON value
JsonOpen == x_json.mode \notin {"done", "fail"}

\* C9: the isolated span is the whole top-level literal.  The scan never
\* stops inside a literal that json.loads would still accept more of, and
\* never reads past the end of a complete one: the span ends where the value
\* ends, whatever brackets and escaped quotes its strings hold, and it parses.
C9_SpanIsTheLiteral ==
    /\ x_phase = "scan" => x_json.mode # "done"
    /\ (x_phase = "done" /\ x_end > 0) => ~JsonOpen
    /\ (x_phase = "done" /\ x_json.mode = "done")
         => /\ x_result = "parsed"
            /\ x_end = x_pos
            /\ x_start > 0
            /\ x_scan.bracket_count = 0

\* a literal with a nested array, an escaped quote and a "]" inside a string
C9_Witness ==
    /\ x_phase = "done"
    /\ x_result = "parsed"
    /\ x_seen = {"nested_array", "escaped_quote", "bracket_in_string"}

\* C10: with the key absent, with a literal whose depth never returns to
\* zero, and with a span that is no JSON value, the result is the empty list
\* and nothing is raised.
C10_EmptyOnEveryFailure ==
    x_phase = "done"
        => /\ x_result \in {"empty", "parsed"}
           /\ x_start = 0 => x_result = "empty"
           /\ (x_start > 0 /\ x_end = 0) => x_result = "empty"
           /\ (x_end > 0 /\ x_json.mode # "done") => x_result = "empty"

\* "[" closed by "}": the span is isolated, does not parse, the result is empty
C10_Witness ==
    /\ x_phase = "done"
    /\ x_end = x_start + 1
    /\ x_close = "}"
    /\ x_result = "empty"

\* the key never occurs
C10_WitnessNoKey == x_phase = "done" /\ x_start = 0 /\ x_pos = MaxLen /\ x_result = "empty"

\* the text ends inside the literal
C10_WitnessTruncated ==
    x_phase = "done" /\ x_start > 0 /\ x_end = 0 /\ x_scan.in_string /\ x_result = "empty"

----------------------------------------------------------------------------
(***************************************************************************)
(* Properties of the room samples and of the preferred occupancy.          *)
(***************************************************************************)
Reconciled(s) ==
    /\ 0 <= s.available
    /\ s.available <= s.total
    /\ s.sold = s.total - s.available
    /\ s.sold >= 0

\* C11: every per-record room sample, in calculate_occupancy_metrics and in
\* analyze_room_inventory alike, has 0 <= available <= total and
\* sold = total - available >= 0, also for records whose reported available
\* count exceeds the total in force for that record.
C11_RoomSamplesReconciled ==
    a_phase = "done" =>
        /\ \A i \in 1..Len(occupancy_samples) : Reconciled(occupancy_samples[i])
        /\ \A i \in 1..Len(inventory_samples) : Reconciled(inventory_samples[i])

\* C12: the preferred occupancy is the room-level average with source 'room'
\* exactly when the room type estimate is above 1 and the room-level average
\* is above 0; otherwise it is the property-level rate with source
\* 'property'; value and tag are chosen by the same condition.
C12_PreferredOccupancy ==
    (a_phase = "done" /\ df # << >>) =>
        LET m == occupancy_metrics
            room == m.room_type_count_estimate > 1 /\ FracPos(m.avg_room_occupancy_rate)
        IN  /\ m.preferred_occupancy_source = "room" <=> room
            /\ m.preferred_occupancy_source = "property" <=> ~room
            /\ room => m.preferred_occupancy_rate = m.avg_room_occupancy_rate
            /\ ~room => m.preferred_occupancy_rate = m.property_occupancy_rate

\* a property whose room-level average differs from its property-level rate
\* is reported by the room-level value
C12_Witness ==
    /\ a_phase = "done"
    /\ occupancy_metrics.preferred_occupancy_source = "room"
    /\ ~FracEq(occupancy_metrics.preferred_occupancy_rate,
               occupancy_metrics.property_occupancy_rate)

\* an estimate above 1 with a room-level average of exactly 0
C12_WitnessZeroAverage ==
    /\ a_phase = "done"
    /\ occupancy_metrics.room_type_count_estimate > 1
    /\ occupancy_samples # << >>
    /\ ~FracPos(occupancy_metrics.avg_room_occupancy_rate)
    /\ occupancy_metrics.preferred_occupancy_source = "property"

----------------------------------------------------------------------------
(***************************************************************************)
(* Properties of compare_to_reference.                                     *)
(***************************************************************************)
RefInBoth ==
    /\ REFERENCE_PROPERTY \in Names(pricing_df)
    /\ REFERENCE_PROPERTY \in Names(occupancy_df)

Returned_Comparison == c_phase \in {"compared", "written"}

RecordsOf(hotel) == RowsOf(comparisons, hotel)

\* C13: with the reference property in both metrics tables,
\* compare_to_reference returns exactly one ComparisonRecord for every other
\* property that appears in the occupancy table, the pricing table or both,
\* and no record for the reference itself.
C13_OneRecordPerOtherProperty ==
    (RefInBoth /\ Returned_Comparison) =>
        /\ RecordsOf(REFERENCE_PROPERTY) = << >>
        /\ \A h \in (Names(pricing_df) \cup Names(occupancy_df)) \ {REFERENCE_PROPERTY} :
              Len(RecordsOf(h)) = 1

\* C14: when the reference property is absent from the pricing table or
\* from the occupancy table, also when one of the two tables is entirely
\* empty while the other is not, compare_to_reference returns an empty result
\* without raising and main still writes the other metrics.
C14_MissingReferenceIsNotFatal ==
    (~RefInBoth /\ (pricing_df # << >> \/ occupancy_df # << >>)) =>
        /\ c_phase # "raised"
        /\ Returned_Comparison => comparisons = << >>
        /\ c_phase = "written" =>
              /\ json_summary.written
              /\ json_summary.pricing_metrics = pricing_df
              /\ json_summary.occupancy_metrics = occupancy_df
              /\ json_summary.comparison = << >>

\* the preferred price and occupancy of a property as the metrics tables hold them
PreferredPrice(hotel) == RowsOf(pricing_df, hotel)[1].preferred_price_per_night

PreferredOccupancy(hotel) == RowsOf(occupancy_df, hotel)[1].preferred_occupancy_rate

\* C15: price_vs_ref is the subject's preferred price minus the reference's,
\* price_vs_ref_pct is that difference over the reference price times 100
\* when the reference price is positive; position is 'Higher Price' exactly
\* when price_vs_ref > 0 and demand is 'Higher Demand' exactly when the
\* preferred occupancy delta is > 0, whatever the property-level and
\* room-level deltas are.
C15_DeltasAndLabels ==
    \A i \in 1..Len(comparisons) :
        LET r == comparisons[i]
            ref_price == PreferredPrice(REFERENCE_PROPERTY)
            occ_delta == PreferredOccupancy(r.hotel_name) - PreferredOccupancy(REFERENCE_PROPERTY)
        IN  /\ r.price_vs_ref = PreferredPrice(r.hotel_name) - ref_price
            /\ ref_price > 0 =>
                  /\ r.price_vs_ref_pct.den # 0
                  /\ FracEq(r.price_vs_ref_pct, Frac(r.price_vs_ref * 100, ref_price))
            /\ r.position = "Higher Price" <=> r.price_vs_ref > 0
            /\ r.position = "Lower Price" <=> r.price_vs_ref <= 0
            /\ r.occ_vs_ref = occ_delta
            /\ r.demand = "Higher Demand" <=> occ_delta > 0
            /\ r.demand = "Lower Demand" <=> occ_delta <= 0

\* reference 1000, subject 1200: 200 and 20.0, 'Higher Price', while the
\* property-level price delta is negative and the property-level occupancy
\* delta has the other sign than the preferred one
C15_Witness ==
    /\ Returned_Comparison
    /\ \E i \in 1..Len(comparisons) :
         LET r == comparisons[i]
         IN  /\ PreferredPrice(REFERENCE_PROPERTY) = 1000
             /\ r.avg_price = 1200
             /\ r.price_vs_ref = 200
             /\ FracEq(r.price_vs_ref_pct, Frac(20, 1))
             /\ r.position = "Higher Price"
             /\ r.property_price_vs_ref.some /\ r.property_price_vs_ref.val < 0
             /\ r.demand = "Higher Demand"
             /\ r.property_occ_vs_ref <= 0

----------------------------------------------------------------------------
(***************************************************************************)
(* Properties of extract_pricing_data.                                     *)
(***************************************************************************)
\* C16: every record with total_room_types > 0 has
\* available_room_types + sold_out_room_types = total_room_types, on the
\* structured listing, with names recovered from b_all_rooms, on DOM room
\* rows and on the DOM price-cell fallback.
C16_RoomCountsAddUp ==
    (p_phase = "extracted" /\ pricing_record.total_room_types > 0) =>
        pricing_record.available_room_types + pricing_record.sold_out_room_types
            = pricing_record.total_room_types

\* C17: on the structured-listing path and on the DOM fallback path, the
\* availability is 'available' exactly when at least one room type yielded
\* a parsed numeric price, and 'sold_out' otherwise.
C17_AvailableIffUsablePrice ==
    p_phase = "extracted" =>
        /\ pricing_record.availability = "available" <=> pricing_record.room_prices > 0
        /\ pricing_record.availability = "sold_out" <=> pricing_record.room_prices = 0

----------------------------------------------------------------------------
(***************************************************************************)
(* Properties of the live dataset and of the archive directory.            *)
(***************************************************************************)
IsPrefix(s, t) == Len(s) <= Len(t) /\ SubSeq(t, 1, Len(s)) = s

ResumingOnDataset == InRun /\ ~is_new_day /\ pricing_csv.exists

\* C18: on a same-day run with partial completion where the live dataset
\* exists, main neither archives nor truncates or rewrites the dataset: the
\* rows present before stay, in order, as a prefix, and the archive
\* directory is unchanged.
C18_ResumingKeepsDataset ==
    /\ [][ ResumingOnDataset
            => /\ pricing_csv'.exists
               /\ IsPrefix(pricing_csv.rows, pricing_csv'.rows)
               /\ csv_archives' = csv_archives
               /\ json_archives' = json_archives ]_vars
    /\ [] (ResumingOnDataset => ~Contains(trace, "archive") /\ ~Contains(trace, "truncate"))
    /\ [][ (Asks /\ pc' = "setup" /\ ~is_new_day' /\ pricing_csv.exists)
            => UNCHANGED << pricing_csv, csv_archives, json_archives >> ]_vars

\* a resuming run has appended the second property's rows after the first's
C18_Witness ==
    /\ pc = "returned"
    /\ ~is_new_day
    /\ already_completed # << >>
    /\ trace = <<"append">>
    /\ Len(pricing_csv.rows) > Len(all_pricing)
    /\ pricing_csv.rows[1].hotel_slug = already_completed[1]
    /\ csv_archives # {}

ArchiveStep == pc = "setup" /\ pc' = "open"

\* C19: after archive_existing_data on a Fresh session at most
\* MAX_ARCHIVE_FILES dataset archives and as many analysis archives remain;
\* the removed ones are those with the oldest keys; removal comes after the
\* copy and before the live dataset is truncated; with six archives present
\* the oldest one is removed and five remain.
C19_RotationKeepsNewest ==
    /\ [][ (ArchiveStep /\ pricing_csv.exists)
            => /\ Cardinality(csv_archives') <= MAX_ARCHIVE_FILES
               /\ Cardinality(json_archives') <= MAX_ARCHIVE_FILES
               /\ \E copy \in SUBSET { [key |-> k, rows |-> pricing_csv.rows] : k \in 0..MaxDay } :
                     /\ Cardinality(copy) <= 1
                     /\ Keys(csv_archives) \cap (0..MaxDay) = {} => copy # {}
                     /\ csv_archives' \subseteq csv_archives \cup copy
                     /\ \A r \in (csv_archives \cup copy) \ csv_archives' :
                           \A k \in csv_archives' : r.key < k.key
                     /\ Cardinality(csv_archives \cup copy) > MAX_ARCHIVE_FILES
                           => /\ Cardinality(csv_archives') = MAX_ARCHIVE_FILES
                              /\ copy \subseteq csv_archives'
               /\ \A r \in json_archives \ json_archives' :
                     \A k \in json_archives' : r.key < k.key
               /\ pricing_csv' = pricing_csv ]_vars
    /\ [][ (InRun /\ is_new_day /\ pricing_csv' # pricing_csv)
            => /\ Contains(trace, "archive")
               /\ csv_archives' = csv_archives
               /\ json_archives' = json_archives
               /\ Cardinality(csv_archives) <= MAX_ARCHIVE_FILES ]_vars

\* five archives in the directory, the sixth copied: the oldest is gone, the
\* copy is kept, and the live dataset has been recreated afterwards
C19_Witness ==
    /\ pc = "collect"
    /\ is_new_day
    /\ trace = <<"archive", "truncate">>
    /\ Keys(csv_archives) = (1 - MAX_ARCHIVE_FILES)..0
    /\ Cardinality(json_archives) = MAX_ARCHIVE_FILES
    /\ \E a \in csv_archives : a.key = 0 /\ a.rows = OldRows(all_hotels)

\* the days on which the rows of the live dataset were collected
CollectedOn == { pricing_csv.rows[i].scrape_timestamp : i \in 1..Len(pricing_csv.rows) }

\* C20: on a Fresh session the archive made from the previous live dataset
\* is named with the date on which that dataset was collected, for every gap
\* in days between that collection and the current run, and an existing
\* archive with that name is left untouched.
C20_ArchiveNamedByCollectionDate ==
    [][ (ArchiveStep /\ pricing_csv.exists /\ Cardinality(CollectedOn) = 1)
        => \A d \in CollectedOn :
             /\ \A a \in csv_archives' \ csv_archives : a.key = d
             /\ \E a \in csv_archives' : a.key = d
             /\ \A a \in csv_archives : a.key = d => a \in csv_archives' ]_vars

----------------------------------------------------------------------------
(***************************************************************************)
(* Further properties of fetch_all_pricing's batching.                     *)
(***************************************************************************)
\* records of the current collection not yet passed to save_batch
Unsaved == Len(all_pricing) - Len(Flatten(batches))

\* C21: during a property's collection, once the current record has been
\* handled, the records produced for it and not yet passed to save_batch
\* number at most SAVE_BATCH_SIZE - 1; the others are the last rows of the
\* live dataset, so an abort in the middle of a property leaves fewer than
\* one full batch of its records unpersisted.
C21_UnsavedBelowOneBatch ==
    /\ [] (pc \in {"collect", "returned"}
            => /\ Unsaved >= 0
               /\ Unsaved <= SAVE_BATCH_SIZE - 1
               /\ LET saved == SubSeq(all_pricing, 1, Len(all_pricing) - Unsaved)
                  IN  /\ Len(pricing_csv.rows) >= Len(saved)
                      /\ saved # << >> => LastN(pricing_csv.rows, Len(saved)) = saved)
    /\ [][ (pc = "collect" /\ exit' = "aborted")
            => /\ pricing_csv' = pricing_csv
               /\ Unsaved <= SAVE_BATCH_SIZE - 1 ]_vars

\* the tenth record has just been handled: nothing is unsaved, and the batch
\* is in the dataset while the collection goes on
C21_Witness ==
    /\ pc = "collect"
    /\ Len(all_pricing) = SAVE_BATCH_SIZE
    /\ Len(all_pricing) < num_dates
    /\ Unsaved = 0
    /\ LastN(pricing_csv.rows, SAVE_BATCH_SIZE) = all_pricing

\* nine records produced, none saved yet
C21_WitnessNine ==
    /\ pc = "collect"
    /\ Unsaved = SAVE_BATCH_SIZE - 1

----------------------------------------------------------------------------
(***************************************************************************)
(* Properties of the metrics computed from a dataset.                      *)
(***************************************************************************)
\* the property has records that contribute a room-level occupancy sample
HasRoomSamples(hotel) == OccupancyValues(HotelDf(dataset, hotel)) # << >>

\* the property has priced records with room prices
HasRoomPrices(hotel) ==
    \E i \in 1..Len(dataset) :
        /\ dataset[i].hotel_name = hotel
        /\ dataset[i].availability = "available"
        /\ dataset[i].total_price # NaN
        /\ dataset[i].min_room_price # NaN

\* C22: in a ComparisonRecord the room-level price delta and the room-level
\* occupancy delta are non-null only when both the compared property and the
\* reference have room-level samples; when either of them has none, the
\* corresponding room-level delta is null.
C22_RoomDeltasNeedBothSignals ==
    m_phase = "compared" =>
        \A i \in 1..Len(room_deltas) :
            LET r == room_deltas[i]
            IN  /\ r.room_price_vs_ref.some
                     => HasRoomPrices(r.hotel_name) /\ HasRoomPrices(REFERENCE_PROPERTY)
                /\ r.room_occ_vs_ref.some
                     => HasRoomSamples(r.hotel_name) /\ HasRoomSamples(REFERENCE_PROPERTY)

----------------------------------------------------------------------------
(***************************************************************************)
(* Further properties of extract_rooms_json_from_html.                     *)
(***************************************************************************)
\* the first occurrence of the key is followed by a complete, well-formed literal
KeyThenLiteral == x_literal.state = "in" /\ x_literal.js.mode = "done"

\* C23: the extractor takes the first "[" or "{" that follows the key and
\* returns the parsed value of that literal, array or object alike: for a
\* key immediately followed by a well-formed object literal the result is
\* the parsed object, not the empty result.
C23_ArrayOrObjectLiteral ==
    (x_phase = "done" /\ KeyThenLiteral)
        => /\ x_result = "parsed"
           /\ x_start = x_literal.at

----------------------------------------------------------------------------
(***************************************************************************)
(* Further properties of the room samples.                                 *)
(***************************************************************************)
\* C24: in calculate_occupancy_metrics a record with no reported available
\* count whose availability is not sold_out is counted with available equal
\* to the total used for that record (the room type estimate when known),
\* so with 0 sold rooms and 0% occupancy; a sold_out record with no reported
\* available count is counted with available 0 and 100% occupancy.
C24_MissingAvailableDefaults ==
    a_phase = "done" =>
        \A k \in 1..Len(occupancy_samples) :
            LET s == occupancy_samples[k]
                row == df[s.index]
            IN  row.available_room_types = NaN =>
                    IF row.availability = "sold_out"
                    THEN /\ s.available = 0
                         /\ FracEq(s.occupancy, Frac(100, 1))
                    ELSE /\ s.available = s.total
                         /\ s.sold = 0
                         /\ FracEq(s.occupancy, Frac(0, 1))

----------------------------------------------------------------------------
(***************************************************************************)
(* Further properties of the session tracker and of main.                  *)
(***************************************************************************)
\* the live dataset holds a record of the property for every date checked
FlushedFor(slug) ==
    /\ pricing_csv.exists
    /\ \A d \in 0..(num_dates - 1) :
          \E i \in 1..Len(pricing_csv.rows) :
              /\ pricing_csv.rows[i].hotel_slug = slug
              /\ pricing_csv.rows[i].day_offset = d

\* C25: flush precedes mark.  In every state of any sequence of runs on one
\* day, each property the progress document lists for today has all the
\* records of the collection that completed it in the live dataset; the
\* final partial batch of a property is written before the progress
\* document that names the property.
C25_FlushPrecedesMark ==
    /\ [] ((progress_file.state = "json" /\ StoredDate = today)
             => \A slug \in Range(StoredCompleted) : FlushedFor(slug))
    /\ [][ progress_file' # progress_file
            => /\ pc = "returned"
               /\ Flatten(batches) = all_pricing
               /\ Len(pricing_csv.rows) >= Len(all_pricing)
               /\ all_pricing # << >> => LastN(pricing_csv.rows, Len(all_pricing)) = all_pricing
               /\ pricing_csv' = pricing_csv ]_vars

\* a collection of one full batch and one more record has been marked: all
\* eleven records are in the dataset
C25_Witness ==
    /\ num_dates = SAVE_BATCH_SIZE + 1
    /\ progress_file = ProgressObject(today, <<"A">>)
    /\ exit = "finished"
    /\ FlushedFor("A")

\* the stored progress document is of today
SameDay ==
    /\ load_daily_progress(progress_file).type = "object"
    /\ "date" \in load_daily_progress(progress_file).keys
    /\ StoredDate = today

\* C26: on a same-day run the tracker reports Done (an empty remaining list)
\* only if every configured property is in the stored completed list;
\* whenever a configured property is missing from the completed list, also
\* when that list holds identifiers that are no longer configured, the
\* property is in the returned remaining list.
C26_DoneOnlyWhenAllCompleted ==
    [][ (Asks /\ SameDay)
         => /\ exit' = "done" => Range(all_hotels) \subseteq Range(StoredCompleted)
            /\ \A h \in Range(all_hotels) \ Range(StoredCompleted) :
                  /\ pc' = "setup"
                  /\ h \in Range(hotels_to_scrape') ]_vars

\* the rows of a property in the live dataset
RowsOfSlug(slug) == SelectSeq(pricing_csv.rows, LAMBDA r : r.hotel_slug = slug)

\* the property has rows and the last of them was collected on day d
LastCollectedOn(slug, d) ==
    RowsOfSlug(slug) # << >> => RowsOfSlug(slug)[Len(RowsOfSlug(slug))].scrape_timestamp = d

\* C27: every property listed in the progress document finished its
\* collection on the date stored in the document: a run that starts on day D
\* and is still running after midnight never records the properties
\* completed on day D under D+1, so a run on D+1 never skips a property
\* that was collected only on day D.
C27_ListedUnderCollectionDate ==
    /\ [] ((SameDay /\ pricing_csv.exists)
             => \A slug \in Range(StoredCompleted) : LastCollectedOn(slug, StoredDate))
    /\ [][ (Asks /\ SameDay /\ pricing_csv.exists)
            => \A h \in Range(all_hotels) :
                 (exit' = "done" \/ h \notin Range(hotels_to_scrape'))
                     => LastCollectedOn(h, today) ]_vars

\* no property other than the reference has a row in both metrics tables
NoOtherYieldsRecord ==
    \A h \in (Names(pricing_df) \cap Names(occupancy_df)) : h = REFERENCE_PROPERTY

\* C28: when the reference property is in both metrics tables and no other
\* property yields a comparison record (the reference is the only property,
\* or every other property lacks a row in one of the tables),
\* compare_to_reference returns an empty table without raising.
C28_NoRecordsIsNotFatal ==
    (RefInBoth /\ NoOtherYieldsRecord) =>
        /\ c_phase # "raised"
        /\ Returned_Comparison => comparisons = << >>

\* analyze_room_inventory: avg_room_occupancy of the property, the mean of
\* occupancy_pct over its room_samples
InventoryAvgRoomOccupancy(samples) ==
    MeanOrZero([i \in 1..Len(samples) |-> samples[i].occupancy])

\* C29: for the same record history of a property, the
\* avg_room_occupancy_rate of calculate_occupancy_metrics equals the
\* avg_room_occupancy_rate of analyze_room_inventory: the two
\* reconciliations agree on every history.
C29_AveragesAgree ==
    (a_phase = "done" /\ inventory_samples # << >>) =>
        FracEq(occupancy_metrics.avg_room_occupancy_rate,
               InventoryAvgRoomOccupancy(inventory_samples))

\* C30: for every property that appears in both tables,
\* room_type_count_estimate in the pricing metrics equals
\* room_type_count_estimate in the occupancy metrics, so price and occupancy
\* choose between room-level and property-level signal from the same
\* room-type cardinality.
C30_SameRoomTypeEstimate ==
    m_phase \in {"metrics", "compared", "raised"} =>
        \A i \in 1..Len(metrics.pricing) : \A j \in 1..Len(metrics.occupancy) :
            metrics.pricing[i].hotel_name = metrics.occupancy[j].hotel_name
                => metrics.pricing[i].room_type_count_estimate
                      = metrics.occupancy[j].room_type_count_estimate

====
